---- MODULE Spec2Model ----
(***************************************************************************)
(* A model of the two-pass assembler of src/assembler/assembler.py: the    *)
(* instruction encoder, the operand parser, the directive processor, the   *)
(* include driver, the fixup pass and the emitter.                         *)
(*                                                                         *)
(* A 32-bit instruction word is kept as its two 16-bit halves [hi, lo]     *)
(* (word = hi * 2^16 + lo), because the model checker's integers are       *)
(* signed 32-bit and opcodes from 0x80 up set bit 31.                      *)
(***************************************************************************)
EXTENDS Integers, Sequences, FiniteSets, TLC

VARIABLES
    labels,                 \* Assembler.labels: symbol name -> value
    instructions,           \* Assembler.instructions: the code-word vector
    data,                   \* Assembler.data: the data byte vector
    current_section,        \* Assembler.current_section
    address,                \* Assembler.address: the code cursor
    data_address,           \* Assembler.data_address: the data cursor
    unresolved_references,  \* Assembler.unresolved_references
    errors,                 \* Assembler.errors
    current_file,           \* Assembler.current_file
    current_line,           \* Assembler.current_line
    included_files,         \* Assembler.included_files
    pc,                     \* where assemble() stands: idle, lines, resolve, emit, done
    source,                 \* the lines of source_code consumed so far by this call
    frames,                 \* the active include_file calls, innermost last
    result,                 \* what assemble() returned
    files,                  \* the files .include can open: absolute path -> lines
    runs,                   \* number of assemble() calls made on this instance
    history,                \* the outcome of an earlier call the caller kept
    log,                    \* every line processed by this call, with what it met and emitted
    enc_args,               \* arguments of the last encode_instruction call checked alone
    enc_word,               \* the word it returned
    gen_word                \* the word the generators' encode_instruction returned for them

asm_vars == <<labels, instructions, data, current_section, address, data_address,
              unresolved_references, errors, current_file, current_line,
              included_files>>
ctl_vars == <<pc, source, frames, result, files, runs, history, log>>
enc_vars == <<enc_args, enc_word, gen_word>>
vars == <<asm_vars, ctl_vars, enc_vars>>

(***************************************************************************)
(* Program constants                                                       *)
(***************************************************************************)
IMM == 0
REG == 1
MEM == 2
REGM == 3
IDX == 4
STK == 5
BAS == 6

R1_BP == 1
R2_SP == 2

CODE_SEGMENT_BASE == 0
DATA_SEGMENT_BASE == 16384

\* The modes whose reg2 and immediate fields hold one 16-bit immediate.
SplitModes == {IMM, MEM, STK, BAS}

(***************************************************************************)
(* Python's integer operators on the values the assembler uses             *)
(***************************************************************************)
Pow2(n) == 2 ^ n

\* x >> n (arithmetic, rounds toward minus infinity)
Shr(x, n) == x \div Pow2(n)

\* x & (2^n - 1), also for a negative x
Low(x, n) == x % Pow2(n)

\* a & b for a, b >= 0
RECURSIVE BitAnd(_, _)
BitAnd(a, b) ==
    IF a = 0 \/ b = 0 THEN 0
    ELSE (a % 2) * (b % 2) + 2 * BitAnd(a \div 2, b \div 2)

\* x & ~m for x, m >= 0
AndNot(x, m) == x - BitAnd(x, m)

(***************************************************************************)
(* encode_instruction and the disassembler's unpacking                     *)
(***************************************************************************)
\* An encoder without the 16-bit split
encode_instruction_nosplit(opcode, mode, reg1, reg2, immediate) ==
    [hi |-> Low(opcode, 8) * 256 + Low(mode, 4) * 16 + Low(reg1, 4),
     lo |-> Low(reg2, 4) * 4096 + Low(immediate, 12)]

\* An encoder that does not cut the high part of a split immediate to 4 bits
encode_instruction_wide_high(opcode, mode, reg1, reg2, immediate) ==
    [hi |-> Low(opcode, 8) * 256 + Low(mode, 4) * 16 + Low(reg1, 4),
     lo |-> (IF Low(mode, 4) \in SplitModes THEN Shr(immediate, 12) ELSE Low(reg2, 4))
                * 4096 + Low(immediate, 12)]

encode_instruction(opcode, mode, reg1, reg2, immediate) ==
    LET op == Low(opcode, 8)
        md == Low(mode, 4)
        r1 == Low(reg1, 4)
        r2 == IF md \in SplitModes THEN Low(Shr(immediate, 12), 4) ELSE Low(reg2, 4)
        im == Low(immediate, 12)
    IN  [hi |-> op * 256 + md * 16 + r1, lo |-> r2 * 4096 + im]

\* The fields the disassembler reads from a word.
Opcode(w) == Low(Shr(w.hi, 8), 8)
Mode(w) == Low(Shr(w.hi, 4), 4)
Reg1(w) == Low(w.hi, 4)
Reg2(w) == Low(Shr(w.lo, 12), 4)
Imm12(w) == Low(w.lo, 12)
Immediate(w) == IF Mode(w) \in SplitModes THEN Reg2(w) * 4096 + Imm12(w) ELSE Imm12(w)

NOP_WORD == [hi |-> 0, lo |-> 0]

\* no word returned yet
NoWord == [none |-> TRUE]

(***************************************************************************)
(* Source text.  A line is kept as the pieces the assembler's regular      *)
(* expressions cut it into; a token keeps its text s and, for a numeric    *)
(* literal, the value v Python's int() gives it.                           *)
(*   token   [k: "id", s]            matches ^[A-Za-z_.][A-Za-z0-9_.]*$    *)
(*           [k: "num", s, v, fmt]   fmt "dec": s.isdigit(); "hex": 0x and *)
(*                                   hex digits; "other": any other text   *)
(*                                   int() accepts (-5, 0b101, 0X1F)       *)
(*           [k: "bad", s]           neither (int() raises ValueError)     *)
(*   operand [form: "empty"]                 nothing between two commas    *)
(*           [form: "hash", t]               #t                            *)
(*           [form: "bare", t]               t                             *)
(*           [form: "mem", t]                [t]                           *)
(*           [form: "plus", base, off]       [base+off]                    *)
(*           [form: "minus", base, off]      [base-off]                    *)
(*   line    [k: "blank"]                                                  *)
(*           [k: "label", name, rest]        name: rest                    *)
(*           [k: "dir", d, args]             .directive args               *)
(*           [k: "ins", op, ops]             MNEMONIC operand, operand     *)
(***************************************************************************)
Id(s) == [k |-> "id", s |-> s]
Num(s, v, fmt) == [k |-> "num", s |-> s, v |-> v, fmt |-> fmt]
Bad(s) == [k |-> "bad", s |-> s]

Empty == [form |-> "empty"]
Hash(t) == [form |-> "hash", t |-> t]
Bare(t) == [form |-> "bare", t |-> t]
Br(t) == [form |-> "mem", t |-> t]
BrPlus(b, o) == [form |-> "plus", base |-> b, off |-> o]
BrMinus(b, o) == [form |-> "minus", base |-> b, off |-> o]

Blank == [k |-> "blank"]
Label(n, rest) == [k |-> "label", name |-> n, rest |-> rest]
Dir(d, args) == [k |-> "dir", d |-> d, args |-> args]
Ins(op, ops) == [k |-> "ins", op |-> op, ops |-> ops]

(***************************************************************************)
(* Static tables                                                           *)
(***************************************************************************)
registers ==
    [s \in {"R0", "ACC", "R0_ACC", "R1", "BP", "R1_BP", "R2", "SP", "R2_SP",
            "R3", "PC", "R3_PC", "R4", "SR", "R4_SR", "R5", "R6", "R7", "R8",
            "R9", "R10", "R11", "R12", "R13", "R14", "R15", "LR", "R15_LR"} |->
        CASE s \in {"R0", "ACC", "R0_ACC"} -> 0
          [] s \in {"R1", "BP", "R1_BP"} -> 1
          [] s \in {"R2", "SP", "R2_SP"} -> 2
          [] s \in {"R3", "PC", "R3_PC"} -> 3
          [] s \in {"R4", "SR", "R4_SR"} -> 4
          [] s = "R5" -> 5 [] s = "R6" -> 6 [] s = "R7" -> 7 [] s = "R8" -> 8
          [] s = "R9" -> 9 [] s = "R10" -> 10 [] s = "R11" -> 11
          [] s = "R12" -> 12 [] s = "R13" -> 13 [] s = "R14" -> 14
          [] s \in {"R15", "LR", "R15_LR"} -> 15]

\* Texts of the shape R<digits> that are no key of the register table, with
\* the number int() reads from the digits.
RDigits == ("R05" :> 5) @@ ("R16" :> 16)

\* str.upper() on the lower-case spellings the model's sources use.
UpperTable ==
    ("r5" :> "R5") @@ ("sp" :> "SP") @@ ("bp" :> "BP") @@ ("acc" :> "ACC") @@
    ("r05" :> "R05") @@ ("load" :> "LOAD") @@ ("halt" :> "HALT")
Upper(s) == IF s \in DOMAIN UpperTable THEN UpperTable[s] ELSE s

\* Opcode: mnemonic -> opcode byte
opcodes ==
    ("NOP" :> 0) @@ ("LOAD" :> 1) @@ ("STORE" :> 2) @@ ("MOVE" :> 3) @@
    ("LOADB" :> 4) @@ ("STOREB" :> 5) @@ ("LOADW" :> 6) @@ ("STOREW" :> 7) @@
    ("LEA" :> 8) @@
    ("ADD" :> 32) @@ ("SUB" :> 33) @@ ("MUL" :> 34) @@ ("DIV" :> 35) @@
    ("MOD" :> 36) @@ ("INC" :> 37) @@ ("DEC" :> 38) @@ ("NEG" :> 39) @@
    ("CMP" :> 40) @@ ("ADDC" :> 42) @@ ("SUBC" :> 43) @@
    ("AND" :> 64) @@ ("OR" :> 65) @@ ("XOR" :> 66) @@ ("NOT" :> 67) @@
    ("SHL" :> 68) @@ ("SHR" :> 69) @@ ("SAR" :> 70) @@ ("ROL" :> 71) @@
    ("ROR" :> 72) @@ ("TEST" :> 73) @@
    ("JMP" :> 96) @@ ("JZ" :> 97) @@ ("JNZ" :> 98) @@ ("JN" :> 99) @@
    ("JP" :> 100) @@ ("JO" :> 101) @@ ("JC" :> 102) @@ ("JBE" :> 103) @@
    ("JA" :> 104) @@ ("CALL" :> 106) @@ ("RET" :> 107) @@ ("SYSCALL" :> 108) @@
    ("LOOP" :> 111) @@
    ("PUSH" :> 128) @@ ("POP" :> 129) @@ ("PUSHF" :> 130) @@ ("POPF" :> 131) @@
    ("PUSHA" :> 132) @@ ("POPA" :> 133) @@ ("ENTER" :> 134) @@ ("LEAVE" :> 135) @@
    ("HALT" :> 160) @@ ("INT" :> 161) @@ ("CLI" :> 162) @@ ("STI" :> 163) @@
    ("IRET" :> 164) @@ ("IN" :> 165) @@ ("OUT" :> 166) @@ ("CPUID" :> 167) @@
    ("RESET" :> 168) @@ ("DEBUG" :> 169) @@
    ("ALLOC" :> 192) @@ ("FREE" :> 193) @@ ("MEMCPY" :> 194) @@
    ("MEMSET" :> 195) @@ ("PROTECT" :> 196)

AllMem == {MEM, REGM, IDX, STK, BAS}

\* InstructionFormat.formats: n is the operand count (-1: optional operand);
\* modes the allowed set of a one-operand form; dest and src the constraint
\* pair of a two-operand form (a single mode is kept as a one-element set).
formats ==
    [m \in DOMAIN opcodes |->
        CASE m \in {"NOP", "PUSHF", "POPF", "PUSHA", "POPA", "LEAVE", "HALT", "CLI",
                    "STI", "IRET", "CPUID", "RESET", "DEBUG"} ->
                [n |-> 0]
          [] m \in {"INC", "DEC", "NEG", "NOT", "POP", "FREE"} ->
                [n |-> 1, modes |-> {REG}]
          [] m = "RET" -> [n |-> -1, modes |-> {IMM}]
          [] m = "PUSH" -> [n |-> 1, modes |-> {REG, IMM}]
          [] m \in {"JMP", "JZ", "JNZ", "JN", "JP", "JO", "JC", "JBE", "JA", "CALL"} ->
                [n |-> 1, modes |-> {IMM, REG, REGM, IDX}]
          [] m \in {"ENTER", "INT", "SYSCALL"} -> [n |-> 1, modes |-> {IMM}]
          [] m \in {"IN", "LOOP"} -> [n |-> 2, dest |-> {REG}, src |-> {IMM}]
          [] m = "OUT" -> [n |-> 2, dest |-> {IMM}, src |-> {REG, IMM}]
          [] m = "MOVE" -> [n |-> 2, dest |-> {REG}, src |-> {REG}]
          [] m \in {"LOAD", "LOADB", "LOADW"} ->
                [n |-> 2, dest |-> {REG}, src |-> {IMM} \cup AllMem]
          [] m \in {"LEA", "STORE", "STOREB", "STOREW"} ->
                [n |-> 2, dest |-> {REG}, src |-> AllMem]
          [] m \in {"ADD", "SUB", "MUL", "DIV", "MOD", "AND", "OR", "XOR", "TEST",
                    "CMP", "ADDC", "SUBC"} ->
                [n |-> 2, dest |-> {REG}, src |-> {REG, IMM} \cup AllMem]
          [] m \in {"SHL", "SHR", "SAR", "ROL", "ROR", "ALLOC", "PROTECT"} ->
                [n |-> 2, dest |-> {REG}, src |-> {REG, IMM}]
          [] m \in {"MEMCPY", "MEMSET"} -> [n |-> 3]]

(***************************************************************************)
(* The assembler's methods, as operators on the record S of its fields.    *)
(* S.entering is the include_file call a line ends in, if any.             *)
(***************************************************************************)
NoCall == [none |-> TRUE]

\* Assembler.error
error(S, msg) ==
    [S EXCEPT !.errors =
        Append(@, [file |-> S.current_file, line |-> S.current_line, msg |-> msg])]

\* The test parse_operand makes before it calls parse_register:
\* token in self.registers or (token.startswith('R') and token[1:].isdigit())
LooksLikeRegister(s) == s \in DOMAIN registers \/ s \in DOMAIN RDigits

\* Assembler.parse_register: [val, st]
parse_register(S, token) ==
    LET t == Upper(token) IN
    IF t \in DOMAIN registers THEN [val |-> registers[t], st |-> S]
    ELSE IF t \in DOMAIN RDigits /\ RDigits[t] \in 0 .. 15
         THEN [val |-> RDigits[t], st |-> S]
    ELSE [val |-> 0, st |-> error(S, "Invalid register")]

\* Assembler.parse_immediate: [val, st]
parse_immediate(S, token, allow_unresolved) ==
    IF token.k = "id" THEN
        IF token.s \in DOMAIN S.labels THEN [val |-> S.labels[token.s], st |-> S]
        ELSE IF allow_unresolved THEN [val |-> 0, st |-> S]
        ELSE [val |-> 0, st |-> error(S, "Undefined symbol")]
    ELSE IF token.k = "num" THEN [val |-> token.v, st |-> S]
    ELSE [val |-> 0, st |-> error(S, "Invalid numeric value")]

Operand(mode, reg1, reg2, imm, S) ==
    [mode |-> mode, reg1 |-> reg1, reg2 |-> reg2, imm |-> imm, st |-> S]

\* parse_operand, [Rn], [SP], [BP]
RegisterIndirect(S, expr) ==
    LET r == parse_register(S, expr) IN
    IF r.val = R2_SP THEN Operand(STK, 0, 0, 0, r.st)
    ELSE IF r.val = R1_BP THEN Operand(BAS, 0, 0, 0, r.st)
    ELSE Operand(REGM, r.val, 0, 0, r.st)

\* parse_operand, [reg+off] (sign 1) and [reg-off] (sign -1)
RegisterOffset(S, base, off, sign) ==
    LET r == parse_register(S, base.s)
        i == parse_immediate(r.st, off, TRUE)
        imm == IF sign = 1 THEN i.val ELSE Low(-i.val, 12)
    IN  IF r.val = R2_SP THEN Operand(STK, 0, 0, imm, i.st)
        ELSE IF r.val = R1_BP THEN Operand(BAS, 0, 0, imm, i.st)
        ELSE Operand(IDX, r.val, 0, imm, i.st)

\* offset.isdigit() or (offset.startswith('0x') and all hex digits)
SimpleNumeric(off) == off.k = "num" /\ off.fmt \in {"dec", "hex"}

\* parse_operand, [sym+off] (sign 1) and [sym-off] (sign -1)
SymbolOffset(S, base, off, sign) ==
    IF SimpleNumeric(off) THEN
        LET i == parse_immediate(S, off, FALSE)
            known == base.s \in DOMAIN i.st.labels
            base_value == IF known THEN i.st.labels[base.s] ELSE 0
            S2 == IF known THEN i.st
                  ELSE [i.st EXCEPT !.unresolved_references =
                            Append(@, [index |-> Len(S.instructions),
                                       symbol |-> base.s, kind |-> "imm"])]
        IN  Operand(MEM, 0, 0, base_value + sign * i.val, S2)
    ELSE Operand(MEM, 0, 0, 0, error(S, "Complex expressions not supported"))

\* Assembler.parse_operand: [mode, reg1, reg2, imm, st]
parse_operand(S, op) ==
    CASE op.form = "hash" ->
            LET i == parse_immediate(S, op.t, TRUE) IN Operand(IMM, 0, 0, i.val, i.st)
      [] op.form = "mem" ->
            IF LooksLikeRegister(op.t.s) THEN RegisterIndirect(S, op.t.s)
            ELSE LET i == parse_immediate(S, op.t, TRUE)
                 IN  Operand(MEM, 0, 0, i.val, i.st)
      [] op.form = "plus" ->
            IF LooksLikeRegister(op.base.s) THEN RegisterOffset(S, op.base, op.off, 1)
            ELSE SymbolOffset(S, op.base, op.off, 1)
      [] op.form = "minus" ->
            IF LooksLikeRegister(op.base.s) THEN RegisterOffset(S, op.base, op.off, -1)
            ELSE SymbolOffset(S, op.base, op.off, -1)
      [] op.form = "bare" ->
            IF LooksLikeRegister(op.t.s)
            THEN LET r == parse_register(S, op.t.s) IN Operand(REG, r.val, 0, 0, r.st)
            ELSE LET i == parse_immediate(S, op.t, TRUE)
                 IN  Operand(IMM, 0, 0, i.val, i.st)

\* A validator that checks the operand count alone
validate_count_only(opcode, operands, addr_modes) ==
    IF opcode \notin DOMAIN formats THEN [valid |-> FALSE, msg |-> "Unknown opcode"]
    ELSE IF formats[opcode].n = -1 /\ Len(operands) > 1
    THEN [valid |-> FALSE, msg |-> "expects at most 1 operand"]
    ELSE IF formats[opcode].n # -1 /\ Len(operands) # formats[opcode].n
    THEN [valid |-> FALSE, msg |-> "expects n operand(s)"]
    ELSE [valid |-> TRUE, msg |-> ""]

\* InstructionFormat.validate: [valid, msg]
validate(opcode, operands, addr_modes) ==
    IF opcode \notin DOMAIN formats THEN [valid |-> FALSE, msg |-> "Unknown opcode"]
    ELSE LET fmt == formats[opcode] IN
    IF fmt.n = -1 THEN
        IF Len(operands) > 1
        THEN [valid |-> FALSE, msg |-> "expects at most 1 operand"]
        ELSE [valid |-> TRUE, msg |-> ""]
    ELSE IF Len(operands) # fmt.n THEN [valid |-> FALSE, msg |-> "expects n operand(s)"]
    ELSE IF fmt.n = 0 THEN [valid |-> TRUE, msg |-> ""]
    ELSE IF fmt.n = 1 THEN
        IF addr_modes[1] \notin fmt.modes
        THEN [valid |-> FALSE, msg |-> "expects operand with addressing mode(s)"]
        ELSE [valid |-> TRUE, msg |-> ""]
    ELSE IF fmt.n = 2 THEN
        IF addr_modes[1] \notin fmt.dest
        THEN [valid |-> FALSE, msg |-> "expects first operand with addressing mode"]
        ELSE IF addr_modes[2] \notin fmt.src
        THEN [valid |-> FALSE, msg |-> "expects second operand with addressing mode"]
        ELSE [valid |-> TRUE, msg |-> ""]
    ELSE [valid |-> TRUE, msg |-> ""]

\* The label-reference test of process_instruction's operand loop: the symbol
\* a parsed operand refers to when that symbol is not bound, else "".
ForSource(S, raw_op, mode) ==
    IF mode = IMM /\ raw_op.form \in {"hash", "bare"} /\ raw_op.t.k = "id"
    THEN IF raw_op.t.s \notin DOMAIN S.labels THEN raw_op.t.s ELSE ""
    ELSE IF mode = MEM /\ raw_op.form = "mem" /\ raw_op.t.k = "id"
                      /\ raw_op.t.s \notin DOMAIN S.labels
    THEN raw_op.t.s
    ELSE ""

\* One pass of process_instruction's operand loop: the parsed operand o of
\* raw operand i (0-based) joins the operands, its label reference for_source.
Collect(acc, i, raw_op, o) ==
    [st |-> o.st,
     operands |-> Append(acc.operands,
                    [mode |-> o.mode, reg1 |-> o.reg1, reg2 |-> o.reg2, imm |-> o.imm]),
     for_source |-> LET sym == ForSource(o.st, raw_op, o.mode)
                    IN  IF sym = "" THEN acc.for_source
                        ELSE (i :> sym) @@ acc.for_source]

\* process_instruction's operand loop from raw operand i (0-based) on:
\* acc = [st, operands, for_source]
RECURSIVE ParseOperands(_, _, _)
ParseOperands(raw_operands, i, acc) ==
    IF i >= Len(raw_operands) THEN acc
    ELSE IF raw_operands[i + 1].form = "empty" THEN ParseOperands(raw_operands, i + 1, acc)
    ELSE ParseOperands(raw_operands, i + 1,
            Collect(acc, i, raw_operands[i + 1],
                    parse_operand(acc.st, raw_operands[i + 1])))

\* self.instructions.append(instruction); self.address += 4
AppendInstruction(S, instruction) ==
    [S EXCEPT !.instructions = Append(@, instruction), !.address = @ + 4]

\* self.unresolved_references.append((len(self.instructions), symbol, 'imm'))
Track(S, for_source, i) ==
    IF i \in DOMAIN for_source
    THEN [S EXCEPT !.unresolved_references =
            Append(@, [index |-> Len(S.instructions), symbol |-> for_source[i],
                       kind |-> "imm"])]
    ELSE S

\* An encoding step that reports a validation failure and encodes all the same
EncodeOperands_reporting_only(opcode_str, p) ==
    LET v == validate(opcode_str, p.operands,
                      [j \in 1 .. Len(p.operands) |-> p.operands[j].mode])
        st == IF v.valid THEN p.st ELSE error(p.st, v.msg)
    IN  AppendInstruction(st,
            IF p.operands = << >>
            THEN encode_instruction(opcodes[opcode_str], IMM, 0, 0, 0)
            ELSE encode_instruction(opcodes[opcode_str], p.operands[1].mode,
                                    p.operands[1].reg1, p.operands[1].reg2,
                                    p.operands[1].imm))

\* An encoding step that takes the source register from the third slot of the
\* source operand's tuple
EncodeOperands_source_slot(opcode_str, p) ==
    LET opcode == opcodes[opcode_str]
        operands == p.operands
        modes == [j \in 1 .. Len(operands) |-> operands[j].mode]
        v == validate(opcode_str, operands, modes)
    IN
    IF ~v.valid THEN error(p.st, v.msg)
    ELSE IF Len(operands) = 0 THEN
        AppendInstruction(p.st, encode_instruction(opcode, IMM, 0, 0, 0))
    ELSE IF Len(operands) = 1 THEN
        AppendInstruction(Track(p.st, p.for_source, 0),
            encode_instruction(opcode, operands[1].mode, operands[1].reg1,
                               operands[1].reg2, operands[1].imm))
    ELSE IF Len(operands) = 2 THEN
        IF opcode_str = "MOVE" THEN
            AppendInstruction(p.st,
                encode_instruction(opcode, REG, operands[1].reg1, operands[2].reg2, 0))
        ELSE IF operands[1].mode = REG THEN
            AppendInstruction(Track(p.st, p.for_source, 1),
                encode_instruction(opcode, operands[2].mode, operands[1].reg1,
                                   operands[2].reg2, operands[2].imm))
        ELSE error(p.st, "Unsupported addressing mode")
    ELSE IF Len(operands) = 3
    THEN error(p.st, "Three-operand instruction not fully implemented")
    ELSE error(p.st, "Too many operands")

\* process_instruction after its operand loop: validation and encoding of
\* the parsed operands p = [st, operands, for_source]
EncodeOperands(opcode_str, p) ==
    LET opcode == opcodes[opcode_str]
        operands == p.operands
        modes == [j \in 1 .. Len(operands) |-> operands[j].mode]
        v == validate(opcode_str, operands, modes)
    IN
    IF ~v.valid THEN error(p.st, v.msg)
    ELSE IF Len(operands) = 0 THEN
        AppendInstruction(p.st, encode_instruction(opcode, IMM, 0, 0, 0))
    ELSE IF Len(operands) = 1 THEN
        AppendInstruction(Track(p.st, p.for_source, 0),
            encode_instruction(opcode, operands[1].mode, operands[1].reg1,
                               operands[1].reg2, operands[1].imm))
    ELSE IF Len(operands) = 2 THEN
        IF opcode_str = "MOVE" THEN
            AppendInstruction(p.st,
                encode_instruction(opcode, REG, operands[1].reg1, operands[2].reg1, 0))
        ELSE IF operands[1].mode = REG THEN
            AppendInstruction(Track(p.st, p.for_source, 1),
                encode_instruction(opcode, operands[2].mode, operands[1].reg1,
                                   operands[2].reg1, operands[2].imm))
        ELSE error(p.st, "Unsupported addressing mode")
    ELSE IF Len(operands) = 3
    THEN error(p.st, "Three-operand instruction not fully implemented")
    ELSE error(p.st, "Too many operands")

\* Assembler.process_instruction
process_instruction(S, opcode_text, raw_operands) ==
    IF Upper(opcode_text) \notin DOMAIN opcodes THEN error(S, "Unknown opcode")
    ELSE EncodeOperands(Upper(opcode_text),
            ParseOperands(raw_operands, 0,
                [st |-> S, operands |-> << >>, for_source |-> << >>]))

Zeros(n) == [i \in 1 .. n |-> 0]
Nops(n) == [i \in 1 .. n |-> NOP_WORD]

\* The bytes a quoted string stands for, from character i (0-based) on;
\* characters are their codes.
RECURSIVE StringBytes(_, _)
StringBytes(string, i) ==
    IF i >= Len(string) THEN << >>
    ELSE IF string[i + 1] = 92 /\ i + 1 < Len(string) THEN
        LET c == string[i + 2]
            b == CASE c = 110 -> 10 [] c = 116 -> 9 [] c = 114 -> 13 [] c = 48 -> 0
                   [] OTHER -> c
        IN  <<b>> \o StringBytes(string, i + 2)
    ELSE <<string[i + 1]>> \o StringBytes(string, i + 1)

Str(chars) == [k |-> "str", chars |-> chars]

\* self.data.append(...) of each byte; self.data_address += count
AppendData(S, bytes) ==
    [S EXCEPT !.data = @ \o bytes, !.data_address = @ + Len(bytes)]

\* the value loop of .byte (width 1), .word (2) and .dword (4), from value j on
RECURSIVE DataValues(_, _, _, _)
DataValues(S, args, j, width) ==
    IF j > Len(args) THEN S
    ELSE LET i == parse_immediate(S, args[j], TRUE)
             bytes == [b \in 1 .. width |-> Low(Shr(i.val, 8 * (b - 1)), 8)]
         IN  DataValues(AppendData(i.st, bytes), args, j + 1, width)

\* os.path.abspath on the file names the model's sources use
AbsPath(filename) == IF filename = "./a.s" THEN "a.s" ELSE filename

\* include_file without the check for a file that is being included
include_file_unchecked(S, filename) ==
    IF AbsPath(filename) \notin DOMAIN files THEN error(S, "Include file not found")
    ELSE IF ~files[AbsPath(filename)].readable
    THEN error(S, "Error processing include file")
    ELSE [S EXCEPT !.included_files = @ \cup {AbsPath(filename)},
                   !.current_file = filename,
                   !.entering = [filename |-> filename, abs_path |-> AbsPath(filename),
                                 prev_file |-> S.current_file,
                                 prev_line |-> S.current_line, pos |-> 0]]

\* Assembler.include_file up to the loop over the file's lines; the loop and
\* the restore after it are the actions IncludedLine and EndInclude.
include_file(S, filename) ==
    LET abs_path == AbsPath(filename) IN
    IF abs_path \in S.included_files THEN error(S, "Circular inclusion detected")
    ELSE IF abs_path \notin DOMAIN files THEN error(S, "Include file not found")
    ELSE IF ~files[abs_path].readable THEN error(S, "Error processing include file")
    ELSE [S EXCEPT !.included_files = @ \cup {abs_path},
                   !.current_file = filename,
                   !.entering = [filename |-> filename, abs_path |-> abs_path,
                                 prev_file |-> S.current_file,
                                 prev_line |-> S.current_line, pos |-> 0]]

\* A .space that advances the code cursor by the size as written
Space_unrounded(S, args) ==
    IF Len(args) = 0 THEN error(S, "directive requires a size")
    ELSE LET i == parse_immediate(S, args[1], FALSE)
             size == i.val
         IN
    IF size <= 0 THEN error(i.st, "Size must be positive")
    ELSE IF S.current_section = ".text" THEN
        [i.st EXCEPT !.instructions = @ \o Nops((size + 3) \div 4),
                     !.address = @ + size]
    ELSE AppendData(i.st, Zeros(size))

\* .space / .skip
Space(S, args) ==
    IF Len(args) = 0 THEN error(S, "directive requires a size")
    ELSE LET i == parse_immediate(S, args[1], FALSE)
             size == i.val
         IN
    IF size <= 0 THEN error(i.st, "Size must be positive")
    ELSE IF S.current_section = ".text" THEN
        LET rounded == AndNot(size + 3, 3) IN
        [i.st EXCEPT !.instructions = @ \o Nops((rounded + 3) \div 4),
                     !.address = @ + rounded]
    ELSE AppendData(i.st, Zeros(size))

\* An .align that rounds the cursor down to the multiple below it
Align_rounding_down(S, args) ==
    IF Len(args) = 0 THEN error(S, ".align directive requires an alignment value")
    ELSE LET i == parse_immediate(S, args[1], FALSE)
             alignment == i.val
         IN
    IF alignment <= 0 \/ BitAnd(alignment, alignment - 1) # 0
    THEN error(i.st, "Alignment must be a positive power of 2")
    ELSE IF S.current_section = ".text" THEN
        [i.st EXCEPT !.address = AndNot(S.address, alignment - 1)]
    ELSE
        [i.st EXCEPT !.data_address = AndNot(S.data_address, alignment - 1)]

\* .align
Align(S, args) ==
    IF Len(args) = 0 THEN error(S, ".align directive requires an alignment value")
    ELSE LET i == parse_immediate(S, args[1], FALSE)
             alignment == i.val
         IN
    IF alignment <= 0 \/ BitAnd(alignment, alignment - 1) # 0
    THEN error(i.st, "Alignment must be a positive power of 2")
    ELSE IF S.current_section = ".text" THEN
        LET padding == AndNot(S.address + alignment - 1, alignment - 1) - S.address IN
        [i.st EXCEPT !.instructions = @ \o Nops((padding + 3) \div 4),
                     !.address = @ + padding]
    ELSE
        LET padding == AndNot(S.data_address + alignment - 1, alignment - 1)
                       - S.data_address
        IN  AppendData(i.st, Zeros(padding))

\* .equ / .set
Equ(S, args) ==
    IF Len(args) # 2 THEN error(S, "Invalid format for .equ")
    ELSE IF args[1].k # "id" THEN error(S, "Invalid symbol name")
    ELSE LET i == parse_immediate(S, args[2], FALSE)
         IN  [i.st EXCEPT !.labels = (args[1].s :> i.val) @@ @]

\* .org
Org(S, args) ==
    IF Len(args) = 0 THEN error(S, ".org directive requires an address")
    ELSE LET i == parse_immediate(S, args[1], FALSE)
             addr == i.val
         IN
    IF S.current_section = ".text" THEN
        IF addr < S.address THEN error(i.st, "Cannot move address backward")
        ELSE LET n == (addr - S.address + 3) \div 4
             IN  [i.st EXCEPT !.instructions = @ \o Nops(n), !.address = @ + 4 * n]
    ELSE
        IF addr < S.data_address THEN error(i.st, "Cannot move data address backward")
        ELSE AppendData(i.st, Zeros(addr - S.data_address))

\* .ascii (terminator << >>) and .asciiz (terminator <<0>>)
Ascii(S, d, args, terminator) ==
    IF Len(args) = 0 THEN error(S, "directive requires a string")
    ELSE IF S.current_section # ".data"
    THEN error(S, "directive can only appear in .data section")
    ELSE IF args[1].k # "str" THEN error(S, "Invalid string format")
    ELSE AppendData(S, StringBytes(args[1].chars, 0) \o terminator)

\* A .byte/.word/.dword that emits in whatever section is active
DataDirective_any_section(S, args, width) ==
    IF Len(args) = 0 THEN error(S, "directive requires at least one value")
    ELSE LET pad == (width - (S.data_address % width)) % width
         IN  DataValues(AppendData(S, Zeros(pad)), args, 1, width)

\* .byte (width 1, alignment 1), .word (2, 2), .dword (4, 4)
DataDirective(S, args, width) ==
    IF Len(args) = 0 THEN error(S, "directive requires at least one value")
    ELSE IF S.current_section # ".data"
    THEN error(S, "directive can only appear in .data section")
    ELSE LET pad == (width - (S.data_address % width)) % width
         IN  DataValues(AppendData(S, Zeros(pad)), args, 1, width)

\* Assembler.process_directive (directive names are written in lower case)
process_directive(S, d, args) ==
    CASE d = ".text" ->
            [S EXCEPT !.current_section = ".text", !.address = AndNot(@ + 3, 3)]
      [] d = ".data" -> [S EXCEPT !.current_section = ".data"]
      [] d = ".byte" -> DataDirective(S, args, 1)
      [] d = ".word" -> DataDirective(S, args, 2)
      [] d = ".dword" -> DataDirective(S, args, 4)
      [] d = ".ascii" -> Ascii(S, d, args, << >>)
      [] d = ".asciiz" -> Ascii(S, d, args, <<0>>)
      [] d \in {".space", ".skip"} -> Space(S, args)
      [] d = ".align" -> Align(S, args)
      [] d \in {".equ", ".set"} -> Equ(S, args)
      [] d = ".org" -> Org(S, args)
      [] d = ".include" ->
            IF Len(args) = 0 THEN error(S, ".include directive requires a filename")
            ELSE IF args[1].k # "str" THEN error(S, "Invalid filename format")
            ELSE include_file(S, args[1].chars)
      [] OTHER -> error(S, "Unknown directive")

\* The label branch without the padding of the data vector
DefineLabel_unpadded(S, name) ==
    IF S.current_section = ".text"
    THEN [S EXCEPT !.labels = (name :> S.address) @@ @]
    ELSE [S EXCEPT !.labels = (name :> S.data_address) @@ @]

\* The label branch of process_line: bind name to the active section's cursor.
DefineLabel(S, name) ==
    IF S.current_section = ".text"
    THEN [S EXCEPT !.labels = (name :> S.address) @@ @]
    ELSE LET pad_needed == IF S.data_address % 4 # 0 THEN 4 - (S.data_address % 4) ELSE 0
             P == AppendData(S, Zeros(pad_needed))
         IN  [P EXCEPT !.labels = (name :> P.data_address) @@ @]

\* Assembler.process_line
RECURSIVE process_line(_, _)
process_line(S, line) ==
    CASE line.k = "blank" -> S
      [] line.k = "label" -> process_line(DefineLabel(S, line.name), line.rest)
      [] line.k = "dir" ->
            IF line.d = "." THEN error(S, "Invalid directive syntax")
            ELSE process_directive(S, line.d, line.args)
      [] line.k = "ins" ->
            IF S.current_section # ".text"
            THEN error(S, "Instructions can only appear in .text section")
            ELSE process_instruction(S, line.op, line.ops)

\* One entry of resolve_references' loop applied to the code vector
Fixup(instrs, ref, value) ==
    LET w == instrs[ref.index + 1]
    IN  [instrs EXCEPT ![ref.index + 1] =
            encode_instruction(Opcode(w), Mode(w), Reg1(w), 0, value)]

\* Assembler.resolve_references from reference j on: [st, raised]; raised is
\* the IndexError of self.instructions[index] leaving the method.
RECURSIVE resolve_references(_, _)
resolve_references(S, j) ==
    IF j > Len(S.unresolved_references) THEN [st |-> S, raised |-> FALSE]
    ELSE LET ref == S.unresolved_references[j] IN
        IF ref.symbol \in DOMAIN S.labels THEN
            IF ref.index >= Len(S.instructions) THEN [st |-> S, raised |-> TRUE]
            ELSE resolve_references(
                    [S EXCEPT !.instructions =
                        Fixup(S.instructions, ref, S.labels[ref.symbol])], j + 1)
        ELSE resolve_references(error(S, "Unresolved symbol"), j + 1)

(***************************************************************************)
(* The state machine                                                       *)
(***************************************************************************)
NoResult == [kind |-> "none"]
NoArgs == [none |-> TRUE]

\* The assembler's fields as a record
St ==
    [labels |-> labels, instructions |-> instructions, data |-> data,
     current_section |-> current_section, address |-> address,
     data_address |-> data_address,
     unresolved_references |-> unresolved_references, errors |-> errors,
     current_file |-> current_file, current_line |-> current_line,
     included_files |-> included_files, entering |-> NoCall]

Install(S) ==
    /\ labels' = S.labels
    /\ instructions' = S.instructions
    /\ data' = S.data
    /\ current_section' = S.current_section
    /\ address' = S.address
    /\ data_address' = S.data_address
    /\ unresolved_references' = S.unresolved_references
    /\ errors' = S.errors
    /\ current_file' = S.current_file
    /\ current_line' = S.current_line
    /\ included_files' = S.included_files

\* Assembler.__init__
Construct ==
    /\ labels = << >>
    /\ instructions = << >>
    /\ data = << >>
    /\ current_section = ".text"
    /\ address = CODE_SEGMENT_BASE
    /\ data_address = DATA_SEGMENT_BASE
    /\ unresolved_references = << >>
    /\ errors = << >>
    /\ current_file = ""
    /\ current_line = 0
    /\ included_files = {}

\* A constructed assembler and the file system fs
InitWith(fs) ==
    /\ Construct
    /\ pc = "idle"
    /\ source = << >>
    /\ frames = << >>
    /\ result = NoResult
    /\ files = fs
    /\ runs = 0
    /\ history = {}
    /\ log = << >>
    /\ enc_args = NoArgs
    /\ enc_word = NOP_WORD
    /\ gen_word = NoWord

\* A reset that keeps the symbol table of the previous call
Reset_keeping_labels(filename) ==
    /\ instructions' = << >>
    /\ data' = << >>
    /\ current_section' = ".text"
    /\ address' = CODE_SEGMENT_BASE
    /\ data_address' = DATA_SEGMENT_BASE
    /\ unresolved_references' = << >>
    /\ errors' = << >>
    /\ current_file' = filename
    /\ included_files' = {AbsPath(filename)}
    /\ UNCHANGED <<labels, current_line>>

\* assemble(source_code, filename), the reset at its entry
Reset(filename) ==
    /\ labels' = << >>
    /\ instructions' = << >>
    /\ data' = << >>
    /\ current_section' = ".text"
    /\ address' = CODE_SEGMENT_BASE
    /\ data_address' = DATA_SEGMENT_BASE
    /\ unresolved_references' = << >>
    /\ errors' = << >>
    /\ current_file' = filename
    /\ included_files' = {AbsPath(filename)}
    /\ UNCHANGED current_line

\* What a finished call returned and left behind
Outcome == [source |-> source, result |-> result, labels |-> labels, errors |-> errors]

\* A call of assemble on the instance, the first or one after a finished call;
\* the caller keeps the outcome of the finished call in mind, or the one it
\* kept before.
Assemble(filenames, max_runs) ==
    /\ pc \in {"idle", "done"}
    /\ runs < max_runs
    /\ \E filename \in filenames : Reset(filename)
    /\ pc' = "lines"
    /\ source' = << >>
    /\ frames' = << >>
    /\ result' = NoResult
    /\ runs' = runs + 1
    /\ log' = << >>
    /\ history' \in IF pc = "done" THEN {history, {Outcome}} ELSE {history}
    /\ UNCHANGED <<files, enc_vars>>

\* What the log keeps of a processed line: the line, what it met (the symbol
\* table, the section, the lengths of the code and data vectors, the include
\* stack) and what it did (the words and diagnostics it added, whether it
\* entered a file).
Logged(line, S) ==
    [line |-> line,
     before |-> labels,
     section |-> current_section,
     index |-> Len(instructions),
     ndata |-> Len(data),
     emitted |-> Len(S.instructions) - Len(instructions),
     first |-> IF Len(S.instructions) > Len(instructions)
               THEN S.instructions[Len(instructions) + 1] ELSE NOP_WORD,
     nerrors |-> Len(S.errors) - Len(errors),
     diags |-> [i \in 1 .. Len(S.errors) - Len(errors) |-> S.errors[Len(errors) + i].msg],
     stack |-> included_files,
     entered |-> S.entering # NoCall]

\* the include_file call a processed line ends in becomes the innermost frame
Enter(fr, S) == IF S.entering = NoCall THEN fr ELSE Append(fr, S.entering)

\* The assembler after process_line(line) returned S, under the frames fr
Processed(line, fr, S) ==
    /\ Install(S)
    /\ frames' = Enter(fr, S)
    /\ log' = Append(log, Logged(line, S))

\* One pass of assemble's loop over the source lines: the next line is any
\* line of the menu.
TopLine(menu, max_lines) ==
    /\ pc = "lines"
    /\ frames = << >>
    /\ Len(source) < max_lines
    /\ \E line \in menu :
        /\ Processed(line, frames,
                     process_line([St EXCEPT !.current_line = Len(source) + 1], line))
        /\ source' = Append(source, line)
    /\ UNCHANGED <<pc, result, files, runs, history, enc_vars>>

\* One pass of include_file's loop over the lines of the innermost file
IncludedLine ==
    /\ pc = "lines"
    /\ frames # << >>
    /\ LET top == frames[Len(frames)]
           lines == files[top.abs_path].lines
       IN  /\ top.pos < Len(lines)
           /\ Processed(lines[top.pos + 1],
                        [frames EXCEPT ![Len(frames)].pos = top.pos + 1],
                        process_line([St EXCEPT !.current_line = top.pos + 1],
                                     lines[top.pos + 1]))
    /\ UNCHANGED <<pc, source, result, files, runs, history, enc_vars>>

\* the read of the file raises once its lines have been read (line 991's
\* iteration), which include_file reports as "Error processing include file"
Broken(f) == "broken" \in DOMAIN f

\* what include_file records when it leaves the file of frame top
ReadError(top) ==
    IF Broken(files[top.abs_path])
    THEN error(St, "Error processing include file").errors
    ELSE errors

\* An include_file that leaves the file and line of the included file in place
EndInclude_not_restoring ==
    /\ pc = "lines"
    /\ frames # << >>
    /\ LET top == frames[Len(frames)]
       IN  /\ top.pos >= Len(files[top.abs_path].lines)
           /\ errors' = ReadError(top)
           /\ included_files' = included_files \ {top.abs_path}
    /\ frames' = SubSeq(frames, 1, Len(frames) - 1)
    /\ UNCHANGED <<labels, instructions, data, current_section, address, data_address,
                   unresolved_references, current_file, current_line, pc, source,
                   result, files, runs, history, log, enc_vars>>

\* include_file after its loop: record a read error if the read broke,
\* restore file and line, leave the include set
EndInclude ==
    /\ pc = "lines"
    /\ frames # << >>
    /\ LET top == frames[Len(frames)]
       IN  /\ top.pos >= Len(files[top.abs_path].lines)
           /\ errors' = ReadError(top)
           /\ current_file' = top.prev_file
           /\ current_line' = top.prev_line
           /\ included_files' = included_files \ {top.abs_path}
    /\ frames' = SubSeq(frames, 1, Len(frames) - 1)
    /\ UNCHANGED <<labels, instructions, data, current_section, address, data_address,
                   unresolved_references, pc, source, result, files, runs,
                   history, log, enc_vars>>

\* assemble after resolve_references ended as r = [st, raised]
Resolved(r) ==
    /\ Install(r.st)
    /\ pc' = IF r.raised THEN "done" ELSE "emit"
    /\ result' = IF r.raised THEN [kind |-> "raised"] ELSE result

\* assemble after the last source line: the fixup pass
ResolveReferences ==
    /\ pc = "lines"
    /\ frames = << >>
    /\ Resolved(resolve_references(St, 1))
    /\ UNCHANGED <<source, frames, files, runs, history, log, enc_vars>>

\* The image without the padding between code and data
Binary_unpadded ==
    [kind |-> "binary", code |-> instructions, padding |-> 0, data |-> data]

\* The bytearray assemble builds, as its three parts: the code words (4 bytes
\* each, little-endian), the zero padding and the data bytes.
Binary ==
    LET code_size == 4 * Len(instructions)
        padding_size == IF data # << >> /\ code_size < DATA_SEGMENT_BASE
                        THEN DATA_SEGMENT_BASE - code_size ELSE 0
    IN  [kind |-> "binary", code |-> instructions, padding |-> padding_size,
         data |-> data]

\* assemble after the fixup pass, returning the image whatever was recorded
BuildBinary_ignoring_errors ==
    /\ pc = "emit"
    /\ result' = Binary
    /\ pc' = "done"
    /\ UNCHANGED <<asm_vars, source, frames, files, runs, history, log, enc_vars>>

\* assemble after the fixup pass: None on any error, else the image
BuildBinary ==
    /\ pc = "emit"
    /\ result' = IF errors # << >> THEN [kind |-> "None"] ELSE Binary
    /\ pc' = "done"
    /\ UNCHANGED <<asm_vars, source, frames, files, runs, history, log, enc_vars>>

\* len(binary) and binary[i] of a returned image
BinaryLen(b) == 4 * Len(b.code) + b.padding + Len(b.data)
BinaryByte(b, i) ==
    LET code_size == 4 * Len(b.code) IN
    IF i < code_size THEN
        LET w == b.code[(i \div 4) + 1]
            half == IF i % 4 < 2 THEN w.lo ELSE w.hi
        IN  Low(Shr(half, 8 * (i % 2)), 8)
    ELSE IF i < code_size + b.padding THEN 0
    ELSE b.data[i - code_size - b.padding + 1]

(***************************************************************************)
(* The encoder checked alone                                               *)
(***************************************************************************)
EncOpcodes == {0, 1, 3, 107, 128, 160, 255}
EncModes == 0 .. 6
EncRegs == {0, 1, 2, 5, 15}
EncImms == {-4096, -1, 0, 1, 4095, 4096, 4660, 32768, 65535, 65536, 74565}

EncArgs ==
    [opcode : EncOpcodes, mode : EncModes, reg1 : EncRegs, reg2 : EncRegs,
     immediate : EncImms, called : {FALSE}]

InitEnc ==
    /\ Construct
    /\ pc = "idle"
    /\ source = << >>
    /\ frames = << >>
    /\ result = NoResult
    /\ files = << >>
    /\ runs = 0
    /\ history = {}
    /\ log = << >>
    /\ enc_args \in EncArgs
    /\ enc_word = NOP_WORD
    /\ gen_word = NoWord

Encode ==
    /\ enc_args # NoArgs
    /\ ~enc_args.called
    /\ enc_args' = [enc_args EXCEPT !.called = TRUE]
    /\ enc_word' = encode_instruction(enc_args.opcode, enc_args.mode, enc_args.reg1,
                                      enc_args.reg2, enc_args.immediate)
    /\ UNCHANGED <<asm_vars, ctl_vars, gen_word>>

EncNext == Encode
SpecEnc == InitEnc /\ [][EncNext]_vars

\* The argument tuples C1 quantifies over.
FieldWidthsRespected(a) ==
    /\ a.opcode \in 0 .. 255 /\ a.mode \in 0 .. 6 /\ a.reg1 \in 0 .. 15
    /\ \/ a.mode \in {REG, REGM, IDX} /\ a.reg2 \in 0 .. 15 /\ a.immediate \in 0 .. 4095
       \/ a.mode \in SplitModes /\ a.reg2 = 0 /\ a.immediate \in 0 .. 65535

\* C1: unpacking the encoder's word with the disassembler's rule gives back the
\* opcode, mode, reg1 and immediate (and reg2 outside the split modes) of every
\* argument tuple that respects the field widths.
C1_RoundTrip ==
    (enc_args # NoArgs /\ enc_args.called /\ FieldWidthsRespected(enc_args)) =>
        /\ Opcode(enc_word) = enc_args.opcode
        /\ Mode(enc_word) = enc_args.mode
        /\ Reg1(enc_word) = enc_args.reg1
        /\ Immediate(enc_word) = enc_args.immediate
        /\ (enc_args.mode \notin SplitModes => Reg2(enc_word) = enc_args.reg2)

\* A split-mode call whose immediate needs the high nibble, and a register-mode
\* call with a source register, have both been encoded.
C1_Witness ==
    /\ enc_args # NoArgs
    /\ enc_args.called
    /\ FieldWidthsRespected(enc_args)
    /\ enc_args.mode = IMM
    /\ enc_args.immediate = 4660
    /\ enc_args.opcode = 160
    /\ enc_args.reg1 = 5

(***************************************************************************)
(* Symbols and forward references: one assemble() call on sources made of  *)
(* the lines below.                                                        *)
(***************************************************************************)
MaxLines == 3

R5 == Bare(Id("R5"))
Four == Num("4", 4, "dec")

SymbolMenu ==
    { Ins("NOP", << >>),
      Ins("JZ", <<Bare(Id("t"))>>),                        \* JZ t
      Ins("JZ", <<Empty, Bare(Id("t"))>>),                 \* JZ ,t
      Ins("LOAD", <<R5, Hash(Id("t"))>>),                  \* LOAD R5, #t
      Ins("LOAD", <<R5, Br(Id("t"))>>),                    \* LOAD R5, [t]
      Ins("LOAD", <<R5, BrPlus(Id("t"), Four)>>),          \* LOAD R5, [t+4]
      Ins("STORE", <<R5, BrMinus(Id("t"), Four)>>),        \* STORE R5, [t-4]
      Ins("LOAD", <<R5, BrPlus(Id("R6"), Id("t"))>>),      \* LOAD R5, [R6+t]
      Ins("INC", <<BrPlus(Id("u"), Four)>>),               \* INC [u+4]
      Ins("MOVE", <<R5, Bare(Id("R6"))>>),                 \* MOVE R5, R6
      Label("t", Blank),                                   \* t:
      Label("u", Ins("HALT", << >>)),                      \* u: HALT
      Dir(".equ", <<Id("t"), Num("0x12345", 74565, "hex")>>),
      Dir(".set", <<Id("u"), Num("-5", -5, "other")>>),
      Dir(".data", << >>),
      Dir(".text", << >>),
      Dir(".byte", <<Id("t")>>) }

Init == InitWith(<< >>)

Next ==
    \/ Assemble({"<input>"}, 1)
    \/ TopLine(SymbolMenu, MaxLines)
    \/ ResolveReferences
    \/ BuildBinary

Spec == Init /\ [][Next]_vars

\* The fixup pass has run to its end.
FixupsDone == pc = "emit" \/ (pc = "done" /\ result.kind # "raised")

\* The instruction of a line, under its labels; Blank when it has none.
RECURSIVE InsOf(_)
InsOf(line) ==
    IF line.k = "label" THEN InsOf(line.rest)
    ELSE IF line.k = "ins" THEN line
    ELSE Blank

\* The operands written on an instruction line, empty slots left out.
Written(ins) == {j \in 1 .. Len(ins.ops) : ins.ops[j].form # "empty"}

\* An operand written as a symbol in immediate position: #sym or sym.
IsImmSymbol(op) ==
    /\ op.form \in {"hash", "bare"}
    /\ op.t.k = "id"
    /\ (op.form = "bare" => ~LooksLikeRegister(op.t.s))

\* The log entries of emitted instructions with an immediate operand naming a
\* symbol that was unbound at that line and is bound at the end.
ForwardImm(e) ==
    LET ins == InsOf(e.line) IN
    /\ ins # Blank
    /\ e.emitted = 1
    /\ \E j \in Written(ins) :
        /\ IsImmSymbol(ins.ops[j])
        /\ ins.ops[j].t.s \notin DOMAIN e.before
        /\ ins.ops[j].t.s \in DOMAIN labels

ForwardImmSymbol(e) ==
    LET ins == InsOf(e.line)
        j == CHOOSE j \in Written(ins) : IsImmSymbol(ins.ops[j])
    IN  ins.ops[j].t.s

\* C2: after the fixup pass, the word of every instruction whose IMM-mode
\* operand names a symbol defined only later keeps the opcode, mode and reg1
\* of its first emission and holds the symbol's final value (mod 2^16).
C2_FixupCorrect ==
    FixupsDone =>
        \A k \in 1 .. Len(log) :
            ForwardImm(log[k]) =>
                LET w == instructions[log[k].index + 1]
                    first == log[k].first
                IN  /\ Opcode(w) = Opcode(first)
                    /\ Mode(w) = Mode(first)
                    /\ Reg1(w) = Reg1(first)
                    /\ Immediate(w) = labels[ForwardImmSymbol(log[k])] % 65536

\* The same, for instruction lines written without an empty operand slot.
C2_FixupCorrectNoEmptySlot ==
    FixupsDone =>
        \A k \in 1 .. Len(log) :
            (ForwardImm(log[k])
                /\ \A j \in 1 .. Len(InsOf(log[k].line).ops) :
                        InsOf(log[k].line).ops[j].form # "empty") =>
                LET w == instructions[log[k].index + 1]
                    first == log[k].first
                IN  /\ Opcode(w) = Opcode(first)
                    /\ Mode(w) = Mode(first)
                    /\ Reg1(w) = Reg1(first)
                    /\ Immediate(w) = labels[ForwardImmSymbol(log[k])] % 65536

\* An operand written [sym+k] or [sym-k]: the base is no register, the offset
\* a decimal or 0x literal.
IsSymbolOffset(op) ==
    /\ op.form \in {"plus", "minus"}
    /\ op.base.k = "id"
    /\ ~LooksLikeRegister(op.base.s)
    /\ SimpleNumeric(op.off)

\* sym+k or sym-k with the final value of sym
SymbolOffsetValue(op) ==
    IF op.form = "plus" THEN labels[op.base.s] + op.off.v
    ELSE labels[op.base.s] - op.off.v

\* The source operand of log entry e is [sym+k] or [sym-k], its instruction was
\* emitted, and sym has one value: bound after the line, or bound before it
\* and not rebound since.
SymbolOffsetUse(e) ==
    LET ins == InsOf(e.line) IN
    /\ ins # Blank
    /\ e.emitted = 1
    /\ Len(ins.ops) = 2
    /\ IsSymbolOffset(ins.ops[2])
    /\ ins.ops[2].base.s \in DOMAIN labels
    /\ ins.ops[2].base.s \in DOMAIN e.before =>
            e.before[ins.ops[2].base.s] = labels[ins.ops[2].base.s]

\* C3: the final word of an emitted instruction with operand [sym+k] or
\* [sym-k] has mode MEM and the 16-bit immediate value_of(sym) +/- k, whether
\* sym is defined before the instruction or only after it.
C3_SymbolOffset ==
    FixupsDone =>
        \A k \in 1 .. Len(log) :
            SymbolOffsetUse(log[k]) =>
                LET w == instructions[log[k].index + 1]
                IN  /\ Mode(w) = MEM
                    /\ Immediate(w) = SymbolOffsetValue(InsOf(log[k].line).ops[2]) % 65536

\* The same, for a symbol that is bound when the instruction is met.
C3_SymbolOffsetBackward ==
    FixupsDone =>
        \A k \in 1 .. Len(log) :
            (SymbolOffsetUse(log[k])
                /\ InsOf(log[k].line).ops[2].base.s \in DOMAIN log[k].before) =>
                LET w == instructions[log[k].index + 1]
                IN  /\ Mode(w) = MEM
                    /\ Immediate(w) = SymbolOffsetValue(InsOf(log[k].line).ops[2]) % 65536

\* C6: a step that changes the value of a bound symbol records a diagnostic.
C6_NoSilentRedefinition ==
    [][\A n \in (DOMAIN labels) \cap (DOMAIN labels') :
            labels'[n] # labels[n] => Len(errors') > Len(errors)]_vars

\* The identifiers an operand refers to: every identifier token that is not
\* taken as a register.
OperandRefs(op) ==
    CASE op.form \in {"hash"} -> IF op.t.k = "id" THEN {op.t.s} ELSE {}
      [] op.form \in {"bare", "mem"} ->
            IF op.t.k = "id" /\ ~LooksLikeRegister(op.t.s) THEN {op.t.s} ELSE {}
      [] op.form \in {"plus", "minus"} ->
            (IF op.base.k = "id" /\ ~LooksLikeRegister(op.base.s)
             THEN {op.base.s} ELSE {})
            \cup (IF op.off.k = "id" THEN {op.off.s} ELSE {})
      [] OTHER -> {}

\* The identifiers a line refers to in an instruction operand or in a value
\* of .byte, .word or .dword
RECURSIVE Refs(_)
Refs(line) ==
    CASE line.k = "label" -> Refs(line.rest)
      [] line.k = "ins" -> UNION {OperandRefs(line.ops[j]) : j \in 1 .. Len(line.ops)}
      [] line.k = "dir" /\ line.d \in {".byte", ".word", ".dword"} ->
            {line.args[j].s : j \in {i \in 1 .. Len(line.args) : line.args[i].k = "id"}}
      [] OTHER -> {}

\* C7: when the source refers to an identifier that is defined nowhere,
\* assemble records a diagnostic and returns no image.
C7_UndefinedDiagnosed ==
    (pc = "done" /\ \E k \in 1 .. Len(log) : Refs(log[k].line) \ DOMAIN labels # {}) =>
        /\ errors # << >>
        /\ result.kind # "binary"

(***************************************************************************)
(* Layout: sections, cursors, labels and the image                         *)
(***************************************************************************)
LayoutMaxLines == 3

LayoutMenu ==
    { Ins("NOP", << >>),
      Label("t", Blank),
      Label("u", Dir(".byte", <<Num("7", 7, "dec")>>)),
      Dir(".data", << >>),
      Dir(".text", << >>),
      Dir(".byte", <<Num("7", 7, "dec")>>),
      Dir(".word", <<Num("0x1234", 4660, "hex")>>),
      Dir(".ascii", <<Str(<<97, 98>>)>>),
      Dir(".space", <<Num("3", 3, "dec")>>),
      Dir(".align", <<Num("8", 8, "dec")>>),
      Dir(".org", <<Num("0x4001", 16385, "hex")>>) }

LayoutNext ==
    \/ Assemble({"<input>"}, 1)
    \/ TopLine(LayoutMenu, LayoutMaxLines)
    \/ ResolveReferences
    \/ BuildBinary

SpecLayout == Init /\ [][LayoutNext]_vars

\* assemble returned an image that holds data
ImageWithData == pc = "done" /\ result.kind = "binary" /\ result.data # << >>

\* C4: in a returned image that holds data, data-vector byte i is the image
\* byte at offset 0x4000 + i, whatever the number of code words.
C4_DataAtFixedOffset ==
    ImageWithData =>
        \A i \in 0 .. Len(result.data) - 1 :
            /\ DATA_SEGMENT_BASE + i < BinaryLen(result)
            /\ BinaryByte(result, DATA_SEGMENT_BASE + i) = result.data[i + 1]

\* The same for the images whose code ends below 0x4000.
C4_DataAtFixedOffsetSmallCode ==
    (ImageWithData /\ 4 * Len(result.code) < DATA_SEGMENT_BASE) =>
        \A i \in 0 .. Len(result.data) - 1 :
            /\ DATA_SEGMENT_BASE + i < BinaryLen(result)
            /\ BinaryByte(result, DATA_SEGMENT_BASE + i) = result.data[i + 1]

\* C5: an image that holds data is at least 0x4000 + |data| bytes long and
\* its bytes at the offsets in [4*Ncode, 0x4000) are zero (the padding part is
\* bytes(padding_size), zeros; the offsets after it are looked up); an image
\* without data is exactly 4*Ncode bytes long.
C5_SegmentBoundary ==
    (pc = "done" /\ result.kind = "binary") =>
        IF result.data # << >> THEN
            /\ BinaryLen(result) >= DATA_SEGMENT_BASE + Len(result.data)
            /\ \A i \in (4 * Len(result.code) + result.padding) .. (DATA_SEGMENT_BASE - 1) :
                    i < BinaryLen(result) /\ BinaryByte(result, i) = 0
        ELSE BinaryLen(result) = 4 * Len(result.code)

C5_Witness ==
    /\ ImageWithData
    /\ Len(result.code) > 0
    /\ 4 * Len(result.code) < DATA_SEGMENT_BASE

\* The names a line binds by its leading labels
RECURSIVE LabelNames(_)
LabelNames(line) ==
    IF line.k = "label" THEN {line.name} \cup LabelNames(line.rest) ELSE {}

\* The name a line binds by .equ or .set after its labels
RECURSIVE EquNames(_)
EquNames(line) ==
    CASE line.k = "label" -> EquNames(line.rest)
      [] line.k = "dir" /\ line.d \in {".equ", ".set"} /\ Len(line.args) = 2 ->
            {line.args[1].s}
      [] OTHER -> {}

RoundUp4(n) == 4 * ((n + 3) \div 4)

\* C10: after a line that binds a symbol by a label, the symbol's value is a
\* multiple of 4; in .data it is the data base plus the length the data vector
\* had, rounded up to 4, and the bytes added up to there are zeros.
C10_LabelAddresses ==
    log # << >> =>
        LET e == log[Len(log)] IN
        \A n \in LabelNames(e.line) \ EquNames(e.line) :
            /\ n \in DOMAIN labels
            /\ labels[n] % 4 = 0
            /\ e.section = ".data" =>
                /\ labels[n] = DATA_SEGMENT_BASE + RoundUp4(e.ndata)
                /\ Len(data) >= RoundUp4(e.ndata)
                /\ \A i \in e.ndata + 1 .. RoundUp4(e.ndata) : data[i] = 0

\* a label met the data cursor unaligned
C10_Witness ==
    /\ log # << >>
    /\ log[Len(log)].line.k = "label"
    /\ log[Len(log)].section = ".data"
    /\ log[Len(log)].ndata % 4 # 0
    /\ labels[log[Len(log)].line.name] % 4 = 0

(***************************************************************************)
(* Several calls of assemble on one instance                               *)
(***************************************************************************)
IdemMaxRuns == 3
IdemMaxLines == 2

Include(f) == Dir(".include", <<Str(f)>>)

IdemFiles ==
    "a.s" :> [readable |-> TRUE, lines |-> <<Label("v", Ins("HALT", << >>))>>]

IdemMenu ==
    { Ins("JZ", <<Bare(Id("t"))>>),
      Label("t", Blank),
      Dir(".data", << >>),
      Dir(".byte", <<Num("7", 7, "dec")>>),
      Include("a.s") }

InitIdem == InitWith(IdemFiles)

IdemNext ==
    \/ Assemble({"<input>"}, IdemMaxRuns)
    \/ TopLine(IdemMenu, IdemMaxLines)
    \/ IncludedLine
    \/ EndInclude
    \/ ResolveReferences
    \/ BuildBinary

SpecIdem == InitIdem /\ [][IdemNext]_vars

\* the state assemble's loop starts from, whatever the instance did before
FreshlyReset ==
    /\ labels = << >>
    /\ instructions = << >>
    /\ data = << >>
    /\ unresolved_references = << >>
    /\ errors = << >>
    /\ current_section = ".text"
    /\ address = CODE_SEGMENT_BASE
    /\ data_address = DATA_SEGMENT_BASE
    /\ included_files = {AbsPath(current_file)}
    /\ frames = << >>

\* C8: a call that ends returns the bytes and leaves the symbol table and the
\* diagnostics of any earlier call on the instance with the same source, and
\* every call's loop starts from the state of a new assembler.
C8_Idempotent ==
    /\ (pc = "lines" /\ log = << >>) => FreshlyReset
    /\ pc = "done" =>
        \A h \in history :
            h.source = source =>
                /\ h.result = result
                /\ h.labels = labels
                /\ h.errors = errors

\* the third call on the instance ended, with the source of an earlier call
\* that returned an image
C8_Witness ==
    /\ pc = "done"
    /\ runs = 3
    /\ source # << >>
    /\ \E h \in history : h.source = source /\ h.result.kind = "binary"

(***************************************************************************)
(* Include files                                                           *)
(***************************************************************************)
IncMaxLines == 2
IncMaxFileLines == 1

IncFileNames == {"a.s", "b.s"}

\* what a file may hold, and what the top-level source may
IncFileMenu == {Include("a.s"), Include("b.s"), Include("main.s")}
IncMenu == {Include("a.s"), Include("./a.s"), Include("b.s"), Include("c.s")}

SeqsUpTo(S, n) == UNION {[1 .. k -> S] : k \in 0 .. n}

IncFileSystems ==
    [IncFileNames ->
        {[readable |-> TRUE, lines |-> l] : l \in SeqsUpTo(IncFileMenu, IncMaxFileLines)}]

InitInc == \E fs \in IncFileSystems : InitWith(fs)

IncNext ==
    \/ Assemble({"main.s"}, 1)
    \/ TopLine(IncMenu, IncMaxLines)
    \/ IncludedLine
    \/ EndInclude
    \/ ResolveReferences
    \/ BuildBinary

\* The assembler is one sequential program: while a step is left, it is taken.
FairSpecInc == InitInc /\ [][IncNext]_vars /\ WF_vars(IncNext)

\* the files being included, innermost last
Stack == [i \in 1 .. Len(frames) |-> frames[i].abs_path]

\* the entry is an .include of a file that was on the include stack
Revisits(e) ==
    /\ e.line.k = "dir"
    /\ e.line.d = ".include"
    /\ AbsPath(e.line.args[1].chars) \in e.stack

\* The include stack holds the top-level file and the files being included,
\* each once, and an .include of a file on it records the one diagnostic
\* "Circular inclusion" and enters nothing.
IncludeStack ==
    /\ pc # "idle" =>
        included_files = {AbsPath("main.s")} \cup {Stack[i] : i \in 1 .. Len(Stack)}
    /\ \A i \in 1 .. Len(Stack) :
        /\ Stack[i] # AbsPath("main.s")
        /\ \A j \in 1 .. Len(Stack) : Stack[i] = Stack[j] => i = j
    /\ \A k \in 1 .. Len(log) :
        Revisits(log[k]) =>
            /\ log[k].diags = <<"Circular inclusion detected">>
            /\ ~log[k].entered

\* C9: the include stack is seeded with the top-level file, an .include of a
\* file on the stack records exactly one "Circular inclusion" diagnostic and
\* does not enter the file, and every assembly ends.
C9_CycleDetection == [](IncludeStack) /\ ((pc = "lines") ~> (pc = "done"))

\* an included file's .include of a file on the stack, and the assembly over
C9_Witness ==
    /\ pc = "done"
    /\ \E k \in 1 .. Len(log) : Revisits(log[k]) /\ log[k].stack # {AbsPath("main.s")}

(***************************************************************************)
(* Diagnostics of the three phases and the returned value                  *)
(***************************************************************************)
DiagMaxLines == 3

DiagFiles ==
    ("a.s" :> [readable |-> TRUE, lines |-> <<Ins("BOGUS", << >>)>>]) @@
    ("b.s" :> [readable |-> TRUE, lines |-> <<Ins("HALT", << >>)>>])

DiagMenu ==
    { Ins("JZ", <<Bare(Id("t"))>>),
      Label("t", Blank),
      Ins("INC", <<BrPlus(Id("t"), Four)>>),
      Include("a.s"),
      Include("b.s"),
      Include("c.s") }

InitDiag == InitWith(DiagFiles)

DiagNext ==
    \/ Assemble({"<input>"}, 1)
    \/ TopLine(DiagMenu, DiagMaxLines)
    \/ IncludedLine
    \/ EndInclude
    \/ ResolveReferences
    \/ BuildBinary

SpecDiag == InitDiag /\ [][DiagNext]_vars

C12_ModeSplit ==
    (enc_args # NoArgs /\ enc_args.called /\ enc_args.mode \in SplitModes) =>
        /\ Reg2(enc_word) * 4096 + Imm12(enc_word) = enc_args.immediate % 65536
        /\ enc_word.hi \in 0 .. 65535
        /\ enc_word.lo \in 0 .. 65535

\* a negative immediate and a reg2 argument other than 0 went through a split mode
C12_Witness ==
    /\ enc_args # NoArgs
    /\ enc_args.called
    /\ enc_args.mode = STK
    /\ enc_args.immediate = -1
    /\ enc_args.reg2 = 15
    /\ enc_word.lo = 65535

(***************************************************************************)
(* One instruction line: every mnemonic with every operand list            *)
(***************************************************************************)
Dec(v) == Num(ToString(v), v, "dec")

InsOperands ==
    { Bare(Id("R5")), Bare(Id("R6")), Bare(Id("r5")), Bare(Id("SP")),
      Hash(Dec(4)), Bare(Dec(7)),
      Hash(Num("0x1234", 4660, "hex")), Hash(Num("0x12345", 74565, "hex")),
      Br(Num("0x20", 32, "hex")),
      Br(Id("R6")), Br(Id("SP")), Br(Id("R1")), Br(Id("R2_SP")), Br(Id("bp")),
      BrPlus(Id("R6"), Dec(4)), BrPlus(Id("SP"), Num("0x1234", 4660, "hex")),
      BrPlus(Id("R1_BP"), Dec(4)), BrPlus(Id("sp"), Dec(4)),
      BrMinus(Id("R6"), Dec(4)), BrMinus(Id("SP"), Dec(8)), BrMinus(Id("BP"), Dec(1)) }

InsOperandLists ==
    {<< >>} \cup {<<a>> : a \in InsOperands}
            \cup {<<a, b>> : a \in InsOperands, b \in InsOperands}
            \cup {<<Bare(Id("R5")), Bare(Id("R6")), Hash(Dec(4))>>}

InsLines == {Ins(m, ops) : m \in DOMAIN opcodes, ops \in InsOperandLists}

\* A constructed assembler and a caller that holds the source to assemble
InitGiven(sources) ==
    /\ Construct
    /\ pc = "idle"
    /\ source \in sources
    /\ frames = << >>
    /\ result = NoResult
    /\ files = << >>
    /\ runs = 0
    /\ history = {}
    /\ log = << >>
    /\ enc_args = NoArgs
    /\ enc_word = NOP_WORD
    /\ gen_word = NoWord

\* assemble(source_code) for the source the caller holds: the reset
AssembleGiven ==
    /\ pc = "idle"
    /\ source # << >>
    /\ Reset("<input>")
    /\ pc' = "given"
    /\ runs' = runs + 1
    /\ UNCHANGED <<source, frames, result, files, history, log, enc_vars>>

\* One pass of assemble's loop over the lines of the given source
GivenLine ==
    /\ pc = "given"
    /\ Len(log) < Len(source)
    /\ Processed(source[Len(log) + 1], frames,
                 process_line([St EXCEPT !.current_line = Len(log) + 1],
                              source[Len(log) + 1]))
    /\ pc' = IF Len(log) + 1 = Len(source) THEN "lines" ELSE "given"
    /\ UNCHANGED <<source, result, files, runs, history, enc_vars>>

InitIns == InitGiven({<<line>> : line \in InsLines})

InsNext ==
    \/ AssembleGiven
    \/ GivenLine
    \/ ResolveReferences
    \/ BuildBinary

SpecIns == InitIns /\ [][InsNext]_vars

\* the line of the source has been processed
LineDone == pc \in {"lines", "emit", "done"} /\ Len(log) = 1

\* The assembler as assemble's reset leaves it, at the first line
FreshSt ==
    [labels |-> << >>, instructions |-> << >>, data |-> << >>,
     current_section |-> ".text", address |-> CODE_SEGMENT_BASE,
     data_address |-> DATA_SEGMENT_BASE, unresolved_references |-> << >>,
     errors |-> << >>, current_file |-> "<input>", current_line |-> 1,
     included_files |-> {"<input>"}, entering |-> NoCall]

\* what parse_operand returns for an operand of the first line
Parsed(op) ==
    [f \in {"mode", "reg1", "reg2", "imm"} |-> parse_operand(FreshSt, op)[f]]

SPNames == {"SP", "R2", "R2_SP"}
BPNames == {"BP", "R1", "R1_BP"}

\* the operand is [SP-k] or [BP-k] with k in 1..0x7FFF
NegativeDisplacement(op) ==
    /\ op.form = "minus"
    /\ op.base.k = "id"
    /\ op.base.s \in SPNames \cup BPNames
    /\ op.off.k = "num"
    /\ op.off.v \in 1 .. 32767

\* C13: the word emitted for a line whose last operand is [SP-k] (or [BP-k])
\* has mode STK (or BAS) and the 16-bit immediate (-k) mod 2^16.
C13_NegativeDisplacement ==
    (LineDone /\ log[1].emitted = 1 /\ source[1].ops # << >>
        /\ NegativeDisplacement(source[1].ops[Len(source[1].ops)])) =>
        LET op == source[1].ops[Len(source[1].ops)]
            w == instructions[1]
        IN  /\ Mode(w) = IF op.base.s \in SPNames THEN STK ELSE BAS
            /\ Immediate(w) = (-op.off.v) % 65536

\* The same with the immediate taken modulo 2^12, as parse_operand leaves it.
C13_NegativeDisplacement12 ==
    (LineDone /\ log[1].emitted = 1 /\ source[1].ops # << >>
        /\ NegativeDisplacement(source[1].ops[Len(source[1].ops)])) =>
        LET op == source[1].ops[Len(source[1].ops)]
            w == instructions[1]
        IN  /\ Mode(w) = IF op.base.s \in SPNames THEN STK ELSE BAS
            /\ Immediate(w) = (-op.off.v) % 4096

\* A token that spells a register in some letter case, in upper case
UpperReg(t) ==
    IF t.k = "id" /\ LooksLikeRegister(Upper(t.s)) THEN Id(Upper(t.s)) ELSE t

\* An operand with its register (plain, or the base inside brackets) in upper case
UpperOperand(op) ==
    CASE op.form \in {"bare", "mem"} -> [op EXCEPT !.t = UpperReg(@)]
      [] op.form \in {"plus", "minus"} -> [op EXCEPT !.base = UpperReg(@)]
      [] OTHER -> op

UpperLine(ins) ==
    Ins(ins.op, [j \in 1 .. Len(ins.ops) |-> UpperOperand(ins.ops[j])])

\* C14: each operand of the line parses to the (mode, register, immediate) of
\* its upper-case spelling, and the line leaves the code vector the line with
\* the registers in upper case leaves.
C14_RegisterCase ==
    LineDone =>
        /\ \A j \in 1 .. Len(source[1].ops) :
                Parsed(source[1].ops[j]) = Parsed(UpperOperand(source[1].ops[j]))
        /\ instructions = process_line(FreshSt, UpperLine(source[1])).instructions

\* C15: a RET line whose one operand has another mode than IMM records a
\* diagnostic and emits no word.
C15_RetOperand ==
    (LineDone /\ source[1].op = "RET" /\ Len(source[1].ops) = 1
        /\ Parsed(source[1].ops[1]).mode # IMM) =>
        /\ log[1].nerrors > 0
        /\ log[1].emitted = 0

\* RET with no operand or one operand of mode IMM is emitted as one word.
C15_RetAccepted ==
    (LineDone /\ source[1].op = "RET"
        /\ \/ source[1].ops = << >>
           \/ Len(source[1].ops) = 1 /\ source[1].ops[1] = Hash(Dec(4))) =>
        /\ log[1].nerrors = 0
        /\ log[1].emitted = 1

\* the addressing modes of an instruction's operands, in order
ModesOf(ins) == [j \in 1 .. Len(ins.ops) |-> Parsed(ins.ops[j]).mode]

\* the mnemonic has arity 0, 1 or 2 and the operands satisfy its table entry
SatisfiesFormat(ins) ==
    /\ ins.op \in DOMAIN formats
    /\ formats[ins.op].n \in {0, 1, 2}
    /\ validate(ins.op, ins.ops, ModesOf(ins)).valid

\* C16: a line whose operands satisfy the table entry of its mnemonic (arity
\* 0, 1 or 2) is emitted as one word, moves the code cursor by 4 and records
\* no diagnostic.
C16_ValidEmitted ==
    (LineDone /\ SatisfiesFormat(source[1])) =>
        /\ log[1].emitted = 1
        /\ Len(instructions) = 1
        /\ address = CODE_SEGMENT_BASE + 4
        /\ log[1].nerrors = 0

\* The same for the mnemonics other than OUT.
C16_ValidEmittedButOut ==
    (LineDone /\ SatisfiesFormat(source[1]) /\ source[1].op # "OUT") =>
        /\ log[1].emitted = 1
        /\ Len(instructions) = 1
        /\ address = CODE_SEGMENT_BASE + 4
        /\ log[1].nerrors = 0

\* C17: a word emitted for a line of a fixed-arity mnemonic came from operands
\* whose number is the table's arity and whose modes lie in the table's sets:
\* the allowed set of a one-operand form, the destination and the source
\* constraint of a two-operand form.
C17_FormatSoundness ==
    (LineDone /\ log[1].emitted = 1 /\ formats[source[1].op].n # -1) =>
        LET fmt == formats[source[1].op]
            modes == ModesOf(source[1])
        IN  /\ Len(source[1].ops) = fmt.n
            /\ fmt.n \in {0, 1, 2}
            /\ fmt.n = 1 => modes[1] \in fmt.modes
            /\ fmt.n = 2 => modes[1] \in fmt.dest /\ modes[2] \in fmt.src

\* a two-operand line with a stack-relative source has been emitted
C17_Witness ==
    /\ LineDone
    /\ log[1].emitted = 1
    /\ source[1].op = "STORE"
    /\ ModesOf(source[1]) = <<REG, STK>>

\* the validator rejects the line, or the line has three operands
Rejected(ins) ==
    \/ ~validate(ins.op, ins.ops, ModesOf(ins)).valid
    \/ Len(ins.ops) = 3

\* C18: a line the validator rejects, or one of a three-operand form, records
\* a diagnostic, appends no word and leaves the code cursor, the data vector
\* and the symbol table as they were.
C18_RejectedLine ==
    (LineDone /\ Rejected(source[1])) =>
        /\ log[1].nerrors > 0
        /\ log[1].emitted = 0
        /\ instructions = << >>
        /\ address = CODE_SEGMENT_BASE
        /\ data = << >>
        /\ data_address = DATA_SEGMENT_BASE
        /\ labels = << >>

\* a line with an illegal addressing mode has been rejected
C18_Witness ==
    /\ LineDone
    /\ source[1].op = "INC"
    /\ ModesOf(source[1]) = <<IDX>>
    /\ log[1].nerrors = 1
    /\ instructions = << >>

\* the operand is bracketed with base SP or BP under one of their spellings
StackBase(op) ==
    \/ op.form = "mem" /\ op.t.k = "id" /\ op.t.s \in SPNames \cup BPNames
    \/ op.form \in {"plus", "minus"} /\ op.base.k = "id"
            /\ op.base.s \in SPNames \cup BPNames /\ op.off.k = "num"

BaseName(op) == IF op.form = "mem" THEN op.t.s ELSE op.base.s

\* the offset written in a bracketed operand
OffsetOf(op) ==
    CASE op.form = "mem" -> 0
      [] op.form = "plus" -> op.off.v
      [] op.form = "minus" -> -op.off.v

\* the field of an emitted word that holds the base register of its memory
\* operand: reg2 after a destination register, reg1 in a one-operand line
BaseField(ins, w) == IF Len(ins.ops) = 2 THEN Reg2(w) ELSE Reg1(w)

\* no emitted word has mode REGM or IDX with base register SP or BP
NoIndexedStackBase ==
    (LineDone /\ log[1].emitted = 1) =>
        (Mode(instructions[1]) \in {REGM, IDX} =>
            BaseField(source[1], instructions[1]) \notin {R1_BP, R2_SP})

\* C19: no emitted word has mode REGM or IDX with base register SP or BP, and
\* a bracketed operand with base SP or BP is emitted with mode STK or BAS,
\* zero operand registers and its whole offset as the 16-bit immediate.
C19_StackBase ==
    /\ NoIndexedStackBase
    /\ (LineDone /\ log[1].emitted = 1 /\ source[1].ops # << >>
            /\ StackBase(source[1].ops[Len(source[1].ops)])) =>
        LET op == source[1].ops[Len(source[1].ops)]
            w == instructions[1]
        IN  /\ Mode(w) = IF BaseName(op) \in SPNames THEN STK ELSE BAS
            /\ Parsed(op).reg1 = 0
            /\ Parsed(op).reg2 = 0
            /\ Immediate(w) = OffsetOf(op) % 65536

\* The same for the operands without a negative offset.
C19_StackBaseNotNegative ==
    /\ NoIndexedStackBase
    /\ (LineDone /\ log[1].emitted = 1 /\ source[1].ops # << >>
            /\ StackBase(source[1].ops[Len(source[1].ops)])
            /\ OffsetOf(source[1].ops[Len(source[1].ops)]) >= 0) =>
        LET op == source[1].ops[Len(source[1].ops)]
            w == instructions[1]
        IN  /\ Mode(w) = IF BaseName(op) \in SPNames THEN STK ELSE BAS
            /\ Parsed(op).reg1 = 0
            /\ Parsed(op).reg2 = 0
            /\ Immediate(w) = OffsetOf(op) % 65536

(***************************************************************************)
(* disassemble, one word, without the address prefix                       *)
(***************************************************************************)
\* the name the disassembler finds for an opcode byte
OpcodeName(opcode) ==
    IF \E name \in DOMAIN opcodes : opcodes[name] = opcode
    THEN CHOOSE name \in DOMAIN opcodes : opcodes[name] = opcode
    ELSE "???"

\* the texts R{reg}, #{immediate} and ??? as operands
RegText(reg) == Id("R" \o ToString(reg))
ImmText(immediate) == Hash(Dec(immediate))
Unknown == Bare(Bad("???"))

\* the text of a jump target
JumpOperand(w) ==
    CASE Mode(w) = IMM -> ImmText(Immediate(w))
      [] Mode(w) = REG -> Bare(RegText(Reg1(w)))
      [] Mode(w) = REGM -> Br(RegText(Reg1(w)))
      [] Mode(w) = IDX -> BrPlus(RegText(Reg1(w)), Dec(Immediate(w)))
      [] OTHER -> Unknown

\* the text of the second operand of a load, arithmetic or store line
SourceOperand(w, with_values) ==
    CASE Mode(w) = IMM /\ with_values -> ImmText(Immediate(w))
      [] Mode(w) = REG /\ with_values -> Bare(RegText(Reg2(w)))
      [] Mode(w) = MEM -> Br(Dec(Immediate(w)))
      [] Mode(w) = REGM -> Br(RegText(Reg2(w)))
      [] Mode(w) = IDX -> BrPlus(RegText(Reg2(w)), Dec(Immediate(w)))
      [] Mode(w) = STK -> BrPlus(Id("SP"), Dec(Immediate(w)))
      [] Mode(w) = BAS -> BrPlus(Id("BP"), Dec(Immediate(w)))
      [] OTHER -> Unknown

\* Assembler.disassemble for the word w: the line it prints
disassemble(w) ==
    LET name == OpcodeName(Opcode(w)) IN
    CASE name \in {"NOP", "PUSHF", "POPF", "PUSHA", "POPA", "LEAVE", "HALT", "CLI",
                   "STI", "IRET", "CPUID", "RESET", "DEBUG"} ->
            Ins(name, << >>)
      [] name \in {"INC", "DEC", "NEG", "NOT", "POP"} ->
            Ins(name, <<Bare(RegText(Reg1(w)))>>)
      [] name = "RET" ->
            IF Immediate(w) = 0 THEN Ins(name, << >>)
            ELSE Ins(name, <<ImmText(Immediate(w))>>)
      [] name = "PUSH" ->
            IF Mode(w) = IMM THEN Ins(name, <<ImmText(Immediate(w))>>)
            ELSE Ins(name, <<Bare(RegText(Reg1(w)))>>)
      [] name \in {"JMP", "JZ", "JNZ", "JN", "JP", "JO", "JC", "JBE", "JA", "CALL"} ->
            Ins(name, <<JumpOperand(w)>>)
      [] name \in {"ENTER", "INT", "SYSCALL"} ->
            Ins(name, <<ImmText(Immediate(w))>>)
      [] name = "MOVE" ->
            Ins(name, <<Bare(RegText(Reg1(w))), Bare(RegText(Reg2(w)))>>)
      [] name \in {"LOAD", "LOADB", "LOADW", "LEA", "ADD", "SUB", "MUL", "DIV", "MOD",
                   "AND", "OR", "XOR", "SHL", "SHR", "SAR", "ROL", "ROR", "TEST",
                   "CMP", "ADDC", "SUBC"} ->
            Ins(name, <<Bare(RegText(Reg1(w))), SourceOperand(w, TRUE)>>)
      [] name \in {"STORE", "STOREB", "STOREW"} ->
            Ins(name, <<Bare(RegText(Reg1(w))), SourceOperand(w, FALSE)>>)
      [] OTHER -> Ins(name, <<Unknown>>)

\* a line of the format table with a legal operand list: RET with no operand
\* or one IMM operand, any other mnemonic by its entry
ValidLine(ins) ==
    \/ SatisfiesFormat(ins)
    \/ /\ ins.op = "RET"
       /\ Len(ins.ops) <= 1
       /\ \A j \in 1 .. Len(ins.ops) : Parsed(ins.ops[j]).mode = IMM

\* the mnemonics disassemble has a format for
Disassembled ==
    DOMAIN opcodes \ {"IN", "OUT", "LOOP", "ALLOC", "FREE", "PROTECT", "MEMCPY",
                      "MEMSET"}

\* C20: the word of the image assembled from a valid instruction line is the
\* one word assembled from the line disassemble prints for it.
C20_DisassembleInverse ==
    (pc = "done" /\ result.kind = "binary" /\ Len(result.code) = 1
        /\ ValidLine(source[1])) =>
        process_line(FreshSt, disassemble(result.code[1])).instructions = result.code

\* The same for the mnemonics disassemble has a format for.
C20_DisassembleInverseKnown ==
    (pc = "done" /\ result.kind = "binary" /\ Len(result.code) = 1
        /\ ValidLine(source[1]) /\ source[1].op \in Disassembled) =>
        process_line(FreshSt, disassemble(result.code[1])).instructions = result.code

(***************************************************************************)
(* The test-image generators' encoder beside the assembler's               *)
(***************************************************************************)
\* tools/test_extensive_syscalls.py encode_instruction (the same text is in
\* generate_test_program.py and test_interrupt_return.py)
generator_encode_instruction(opcode, mode, reg1, reg2, immediate) ==
    LET op == Low(opcode, 8)
        md == Low(mode, 4)
        r1 == Low(reg1, 4)
        r2 == Low(reg2, 4)
        im == Low(immediate, 12)
    IN  [hi |-> op * 256 + md * 16 + r1, lo |-> r2 * 4096 + im]

LOAD_OP == 1
SYSCALL_OP == 108
R0_ACC == 0

\* calls generate_syscall_test_program makes: LOAD R0, #65 / #12345 / #0xABCD,
\* LOAD R5, #2, SYSCALL #5
GeneratorCalls ==
    [opcode : {LOAD_OP}, mode : {IMM}, reg1 : {R0_ACC}, reg2 : {0},
     immediate : {65, 12345, 43981}, called : {FALSE}]
    \cup {[opcode |-> LOAD_OP, mode |-> IMM, reg1 |-> 5, reg2 |-> 0, immediate |-> 2,
           called |-> FALSE],
          [opcode |-> SYSCALL_OP, mode |-> IMM, reg1 |-> 0, reg2 |-> 0, immediate |-> 5,
           called |-> FALSE]}

InitGen ==
    /\ Construct
    /\ pc = "idle"
    /\ source = << >>
    /\ frames = << >>
    /\ result = NoResult
    /\ files = << >>
    /\ runs = 0
    /\ history = {}
    /\ log = << >>
    /\ enc_args \in EncArgs \cup GeneratorCalls
    /\ enc_word = NOP_WORD
    /\ gen_word = NoWord

GeneratorEncode ==
    /\ enc_args # NoArgs
    /\ gen_word = NoWord
    /\ gen_word' = generator_encode_instruction(enc_args.opcode, enc_args.mode,
                                                enc_args.reg1, enc_args.reg2,
                                                enc_args.immediate)
    /\ UNCHANGED <<asm_vars, ctl_vars, enc_args, enc_word>>

GenNext == Encode \/ GeneratorEncode
SpecGen == InitGen /\ [][GenNext]_vars

BothEncoded == enc_args # NoArgs /\ enc_args.called /\ gen_word # NoWord

\* C21: for every (opcode, mode, reg1, reg2, immediate) the generators' encoder
\* returns the word the assembler's encoder returns.
C21_SameEncoding ==
    BothEncoded => gen_word = enc_word

\* The two agree outside the modes IMM, MEM, STK, BAS, and in them when the
\* immediate fits 12 bits and the reg2 argument is 0.
C21_SameEncodingNarrow ==
    (BothEncoded
        /\ (Low(enc_args.mode, 4) \in SplitModes =>
                /\ Low(enc_args.immediate, 16) < 4096
                /\ Low(enc_args.reg2, 4) = 0)) =>
        gen_word = enc_word

(***************************************************************************)
(* Include scoping on every exit path                                      *)
(***************************************************************************)
ScopeMaxLines == 3

\* a.s and b.s include each other, d.s cannot be opened, the read of e.s
\* raises after its first line, c.s does not exist
ScopeFiles ==
    ("a.s" :> [readable |-> TRUE, lines |-> <<Include("b.s"), Ins("BOGUS", << >>)>>]) @@
    ("b.s" :> [readable |-> TRUE, lines |-> <<Include("a.s")>>]) @@
    ("d.s" :> [readable |-> FALSE, lines |-> << >>]) @@
    ("e.s" :> [readable |-> TRUE, lines |-> <<Ins("HALT", << >>)>>, broken |-> TRUE])

ScopeMenu ==
    {Include("a.s"), Include("b.s"), Include("c.s"), Include("d.s"), Include("e.s"),
     Include("main.s")}

InitScope == InitWith(ScopeFiles)

ScopeNext ==
    \/ Assemble({"main.s"}, 1)
    \/ TopLine(ScopeMenu, ScopeMaxLines)
    \/ IncludedLine
    \/ EndInclude
    \/ ResolveReferences
    \/ BuildBinary

SpecScope == InitScope /\ [][ScopeNext]_vars

\* the entry is an .include of a file that can be opened and is not being included
Includable(e) ==
    /\ e.line.k = "dir"
    /\ e.line.d = ".include"
    /\ AbsPath(e.line.args[1].chars) \notin e.stack
    /\ AbsPath(e.line.args[1].chars) \in DOMAIN files
    /\ files[AbsPath(e.line.args[1].chars)].readable

\* C22: between two lines the include stack is the top-level file and the files
\* of the include_file calls still active, and the current file and line are
\* those of the line just processed in the innermost active file, whatever
\* way the .include directives before it returned; an .include of a file that
\* is not on the stack enters it, also when it was included before.
C22_IncludeScoping ==
    /\ pc = "lines" =>
        /\ included_files = {AbsPath("main.s")} \cup {Stack[i] : i \in 1 .. Len(Stack)}
        /\ (frames = << >> /\ Len(source) > 0) =>
                /\ current_file = "main.s"
                /\ current_line = Len(source)
        /\ (frames # << >> /\ frames[Len(frames)].pos > 0) =>
                /\ current_file = frames[Len(frames)].filename
                /\ current_line = frames[Len(frames)].pos
    /\ \A k \in 1 .. Len(log) : Includable(log[k]) => log[k].entered

\* a.s has been included twice from the top level, its inner circular
\* inclusion was rejected, the read of e.s broke, and the top level goes on
C22_Witness ==
    /\ pc = "lines"
    /\ frames = << >>
    /\ source = <<Include("a.s"), Include("a.s"), Include("e.s")>>
    /\ \E k, m \in 1 .. Len(log) :
        /\ k < m
        /\ log[k].line = Include("a.s") /\ log[k].entered /\ log[k].stack = {"main.s"}
        /\ log[m].line = Include("a.s") /\ log[m].entered /\ log[m].stack = {"main.s"}
    /\ \E i \in 1 .. Len(errors) : errors[i].msg = "Circular inclusion detected"
    /\ \E i \in 1 .. Len(errors) :
        /\ errors[i].msg = "Error processing include file"
        /\ errors[i].file = "e.s"
        /\ errors[i].line = 1

(***************************************************************************)
(* Pending references and the words they point at                          *)
(***************************************************************************)
\* the pending reference r points at the word a logged line emitted for an
\* instruction that refers to r.symbol
Attached(r) ==
    /\ r.index < Len(instructions)
    /\ Mode(instructions[r.index + 1]) \in {IMM, MEM}
    /\ \E k \in 1 .. Len(log) :
        /\ log[k].index = r.index
        /\ log[k].emitted = 1
        /\ r.symbol \in Refs(log[k].line)

\* C23: whenever the fixup pass can start, every pending reference has an index
\* below the number of code words, and the word there was emitted, with mode
\* IMM or MEM, for an instruction that refers to the reference's symbol.
C23_FixupsAttached ==
    (pc = "lines" /\ frames = << >>) =>
        \A i \in 1 .. Len(unresolved_references) : Attached(unresolved_references[i])

\* The same as long as no line recorded a diagnostic.
C23_FixupsAttachedNoDiagnostic ==
    (pc = "lines" /\ frames = << >> /\ errors = << >>) =>
        \A i \in 1 .. Len(unresolved_references) : Attached(unresolved_references[i])

(***************************************************************************)
(* How assemble ends                                                       *)
(***************************************************************************)
\* C24: an assemble that has ended returned an image and recorded no
\* diagnostic, or returned no image and recorded a diagnostic; it did not end
\* by raising an exception.
C24_TwoOutcomes ==
    pc = "done" =>
        \/ result.kind = "binary" /\ errors = << >>
        \/ result.kind = "None" /\ errors # << >>

\* The same for the calls whose pending references all point at a code word.
C24_TwoOutcomesAttached ==
    (pc = "done"
        /\ \A i \in 1 .. Len(unresolved_references) :
                unresolved_references[i].index < Len(instructions)) =>
        \/ result.kind = "binary" /\ errors = << >>
        \/ result.kind = "None" /\ errors # << >>

(***************************************************************************)
(* .equ / .set whose expression cannot be resolved                         *)
(***************************************************************************)
EquMaxLines == 3

EquMenu ==
    { Dir(".equ", <<Id("a"), Id("b")>>),                   \* .equ a, b
      Dir(".set", <<Id("a"), Bad("0q")>>),                 \* .set a, 0q
      Dir(".equ", <<Id("b"), Four>>),                      \* .equ b, 4
      Dir(".equ", <<Id("a")>>),                            \* .equ a
      Ins("LOAD", <<R5, Hash(Id("a"))>>),                  \* LOAD R5, #a
      Ins("LOAD", <<R5, BrPlus(Id("R6"), Id("a"))>>),      \* LOAD R5, [R6+a]
      Label("a", Blank) }                                  \* a:

EquNext ==
    \/ Assemble({"<input>"}, 1)
    \/ TopLine(EquMenu, EquMaxLines)
    \/ ResolveReferences
    \/ BuildBinary

SpecEqu == Init /\ [][EquNext]_vars

\* the entry is an .equ/.set of a name whose expression could not be resolved
FailedEqu(e) ==
    /\ e.line.k = "dir"
    /\ e.line.d \in {".equ", ".set"}
    /\ Len(e.line.args) = 2
    /\ e.line.args[1].k = "id"
    /\ \/ e.line.args[2].k = "bad"
       \/ e.line.args[2].k = "id" /\ e.line.args[2].s \notin DOMAIN e.before

\* the symbol table after the k-th logged line (no line enters a file here)
LabelsAfter(k) == IF k < Len(log) THEN log[k + 1].before ELSE labels

\* a line other than the k-th binds name
BoundElsewhere(name, k) ==
    \E j \in 1 .. Len(log) :
        /\ j # k
        /\ name \in LabelNames(log[j].line) \cup EquNames(log[j].line)
        /\ ~FailedEqu(log[j])

\* C25: an .equ/.set whose expression cannot be resolved records a diagnostic
\* and leaves the symbol table as it was; when nothing else binds the name, a
\* later line that uses it gets an undefined/unresolved-symbol diagnostic.
C25_FailedEquBindsNothing ==
    \A k \in 1 .. Len(log) :
        FailedEqu(log[k]) =>
            /\ log[k].nerrors >= 1
            /\ LabelsAfter(k) = log[k].before
            /\ \A m \in (k + 1) .. Len(log) :
                (/\ pc = "done"
                 /\ log[k].line.args[1].s \in Refs(log[m].line)
                 /\ ~BoundElsewhere(log[k].line.args[1].s, k)) =>
                    \/ "Undefined symbol" \in {log[m].diags[i] : i \in 1 .. log[m].nerrors}
                    \/ \E i \in 1 .. Len(errors) : errors[i].msg = "Unresolved symbol"

\* What the failed .equ/.set does: it records a diagnostic and binds the name to 0.
C25_FailedEquBindsZero ==
    \A k \in 1 .. Len(log) :
        FailedEqu(log[k]) =>
            /\ log[k].nerrors >= 1
            /\ LabelsAfter(k) = (log[k].line.args[1].s :> 0) @@ log[k].before

(***************************************************************************)
(* Layout directives                                                       *)
(***************************************************************************)
DirMaxLines == 3

DirFiles ==
    ("a.s" :> [readable |-> TRUE,
               lines |-> <<Dir(".data", << >>), Dir(".byte", <<Num("7", 7, "dec")>>)>>])

DirMenu ==
    { Ins("NOP", << >>),
      Ins("BOGUS", << >>),
      Label("t", Blank),
      Dir(".data", << >>),
      Dir(".text", << >>),
      Dir(".byte", <<Num("7", 7, "dec")>>),
      Dir(".word", <<Num("0x1234", 4660, "hex")>>),
      Dir(".dword", <<Num("1", 1, "dec")>>),
      Dir(".ascii", <<Str(<<97, 98>>)>>),
      Dir(".asciiz", <<Str(<<97>>)>>),
      Dir(".space", <<Num("3", 3, "dec")>>),
      Dir(".skip", <<Num("0", 0, "dec")>>),
      Dir(".align", <<Num("8", 8, "dec")>>),
      Dir(".align", <<Num("2", 2, "dec")>>),
      Dir(".align", <<Num("3", 3, "dec")>>),
      Dir(".org", <<Num("0", 0, "dec")>>),
      Dir(".org", <<Num("6", 6, "dec")>>),
      Dir(".org", <<Num("0x4003", 16387, "hex")>>),
      Include("a.s") }

InitDir == InitWith(DirFiles)

DirNext ==
    \/ Assemble({"<input>"}, 1)
    \/ TopLine(DirMenu, DirMaxLines)
    \/ IncludedLine
    \/ EndInclude
    \/ ResolveReferences
    \/ BuildBinary

SpecDir == InitDir /\ [][DirNext]_vars

\* the step processes the top-level source line `line`
Processes(line) == pc = "lines" /\ source' = Append(source, line)

\* the active section's cursor
Cursor == IF current_section = ".text" THEN address ELSE data_address

\* the .org lines of the menu and their addresses
OrgLines == {line \in DirMenu : line.k = "dir" /\ line.d = ".org"}

\* C26: a step that processes `.org addr` with addr at or beyond the active
\* section's cursor and records no diagnostic leaves that cursor equal to addr.
C26_OrgReachesAddress ==
    [][\A line \in OrgLines :
        (Processes(line) /\ line.args[1].v >= Cursor /\ Len(errors') = Len(errors)) =>
            Cursor' = line.args[1].v]_vars

\* In .data the cursor ends at addr; in .text it ends at addr rounded up to a
\* multiple of 4.
C26_OrgReachesAddressRounded ==
    [][\A line \in OrgLines :
        (Processes(line) /\ line.args[1].v >= Cursor /\ Len(errors') = Len(errors)) =>
            Cursor' = IF current_section = ".text" THEN RoundUp4(line.args[1].v)
                      ELSE line.args[1].v]_vars

\* the .align lines of the menu whose argument is a positive power of two
AlignLines ==
    {line \in DirMenu :
        /\ line.k = "dir" /\ line.d = ".align"
        /\ line.args[1].v > 0
        /\ BitAnd(line.args[1].v, line.args[1].v - 1) = 0}

\* what a step appended to the code vector and to the data vector
AppendedCode == SubSeq(instructions', Len(instructions) + 1, Len(instructions'))
AppendedData == SubSeq(data', Len(data) + 1, Len(data'))

\* the step extends both vectors, by nothing but NOP words and zero bytes
PadsOnly ==
    /\ Len(instructions') >= Len(instructions)
    /\ SubSeq(instructions', 1, Len(instructions)) = instructions
    /\ \A j \in 1 .. Len(AppendedCode) : AppendedCode[j] = NOP_WORD
    /\ Len(data') >= Len(data)
    /\ SubSeq(data', 1, Len(data)) = data
    /\ \A j \in 1 .. Len(AppendedData) : AppendedData[j] = 0

\* C27: a step that processes `.align k`, k a positive power of two, without a
\* diagnostic moves the active section's cursor c to the multiple of k in
\* c .. c + k - 1, appends only NOP words in .text or zero bytes in .data, and
\* leaves the other section's cursor and vector as they were.
C27_AlignPads ==
    [][\A line \in AlignLines :
        (Processes(line) /\ Len(errors') = Len(errors)) =>
            /\ current_section' = current_section
            /\ Cursor' % line.args[1].v = 0
            /\ Cursor <= Cursor'
            /\ Cursor' < Cursor + line.args[1].v
            /\ PadsOnly
            /\ current_section = ".text" => data_address' = data_address /\ data' = data
            /\ current_section = ".data" =>
                    address' = address /\ instructions' = instructions]_vars

\* `.align 8` moved the data cursor from 0x4001 to 0x4008 with seven zero bytes
C27_Witness ==
    /\ pc = "lines"
    /\ source = <<Dir(".data", << >>), Dir(".byte", <<Num("7", 7, "dec")>>),
                  Dir(".align", <<Num("8", 8, "dec")>>)>>
    /\ data_address = 16392
    /\ data = <<7, 0, 0, 0, 0, 0, 0, 0>>
    /\ instructions = << >>
    /\ errors = << >>

\* the line, met in the current state, is one of the layout errors: a data
\* directive outside .data, an instruction outside .text, a backward .org, an
\* .align that is not a positive power of two, a .space/.skip of no size
LayoutError(line) ==
    \/ /\ line.k = "dir"
       /\ line.d \in {".byte", ".word", ".dword", ".ascii", ".asciiz"}
       /\ current_section # ".data"
    \/ line.k = "ins" /\ current_section # ".text"
    \/ line.k = "dir" /\ line.d = ".org" /\ line.args[1].v < Cursor
    \/ /\ line.k = "dir" /\ line.d = ".align"
       /\ (line.args[1].v <= 0 \/ BitAnd(line.args[1].v, line.args[1].v - 1) # 0)
    \/ line.k = "dir" /\ line.d \in {".space", ".skip"} /\ line.args[1].v <= 0

\* C28: a step that processes a line that is a layout error records a
\* diagnostic, leaves both cursors, both vectors, the section and the symbol
\* table as they were, and leaves assemble in its loop over the lines.
C28_LayoutErrorFrame ==
    [][\A line \in DirMenu :
        (Processes(line) /\ LayoutError(line)) =>
            /\ Len(errors') > Len(errors)
            /\ UNCHANGED <<address, data_address, instructions, data, current_section,
                           labels>>
            /\ pc' = "lines"
            /\ frames' = << >>]_vars

\* a .byte outside .data was rejected, the NOP after it was assembled, and a
\* backward .org after that was rejected
C28_Witness ==
    /\ pc = "lines"
    /\ source = <<Dir(".byte", <<Num("7", 7, "dec")>>), Ins("NOP", << >>),
                  Dir(".org", <<Num("0", 0, "dec")>>)>>
    /\ Len(errors) = 2
    /\ errors[1].line = 1
    /\ errors[2].line = 3
    /\ instructions = <<NOP_WORD>>
    /\ address = 4
    /\ data = << >>

\* the cursors are where the vectors end
CursorsAgree ==
    /\ address = 4 * Len(instructions)
    /\ data_address = DATA_SEGMENT_BASE + Len(data)

\* the .text and .data lines of the menu
SectionLines == {line \in DirMenu : line.k = "dir" /\ line.d \in {".text", ".data"}}

\* C30: in every state the code cursor is 4 times the number of code words and
\* the data cursor is 0x4000 plus the number of data bytes, and a step that
\* processes .text or .data changes neither cursor and neither vector.
C30_CursorVectorAgreement ==
    /\ []CursorsAgree
    /\ [][\A line \in SectionLines :
            Processes(line) => UNCHANGED <<address, data_address, instructions, data>>]_vars

\* after a .space 3 in .text, a data byte from an included file and a switch
\* back to .text
C30_Witness ==
    /\ pc = "lines"
    /\ frames = << >>
    /\ source = <<Dir(".space", <<Num("3", 3, "dec")>>), Include("a.s"),
                  Dir(".text", << >>)>>
    /\ instructions = <<NOP_WORD>>
    /\ address = 4
    /\ data = <<7>>
    /\ data_address = 16385
    /\ current_section = ".text"

(***************************************************************************)
(* Two-operand encoding                                                    *)
(***************************************************************************)
\* the width of the immediate field under a mode
ImmediateWidth(mode) == IF mode \in SplitModes THEN 16 ELSE 12

\* the line emitted one word for two operands
TwoOperandEmitted ==
    /\ LineDone
    /\ Len(source[1].ops) = 2
    /\ log[1].emitted = 1

\* C29: the word emitted for a two-operand line has the mnemonic's opcode and
\* the destination operand's register in reg1; for MOVE it has mode REG, the
\* source register in reg2 and immediate 0; for any other mnemonic it has the
\* source operand's mode, the source operand's register in reg2 when that mode
\* is REG, REGM or IDX, and the source operand's immediate or displacement, cut
\* to the width of the field, as immediate.
C29_TwoOperandEncoding ==
    TwoOperandEmitted =>
        /\ Opcode(log[1].first) = opcodes[Upper(source[1].op)]
        /\ Parsed(source[1].ops[1]).mode = REG
        /\ Reg1(log[1].first) = Parsed(source[1].ops[1]).reg1
        /\ source[1].op = "MOVE" =>
                /\ Mode(log[1].first) = REG
                /\ Reg2(log[1].first) = Parsed(source[1].ops[2]).reg1
                /\ Imm12(log[1].first) = 0
        /\ source[1].op # "MOVE" =>
                /\ Mode(log[1].first) = Parsed(source[1].ops[2]).mode
                /\ Mode(log[1].first) \in {REG, REGM, IDX} =>
                        Reg2(log[1].first) = Parsed(source[1].ops[2]).reg1
                /\ Immediate(log[1].first) =
                        Low(Parsed(source[1].ops[2]).imm,
                            ImmediateWidth(Mode(log[1].first)))

\* MOVE R5, R6 was emitted as 0x03156000
C29_Witness ==
    /\ TwoOperandEmitted
    /\ source[1] = Ins("MOVE", <<Bare(Id("R5")), Bare(Id("R6"))>>)
    /\ log[1].first = [hi |-> 789, lo |-> 24576]

\* LOAD R5, #0x1234 was emitted as 0x01051234, and ADD R5, [R6+4] as 0x20456004
C29_Examples ==
    /\ (TwoOperandEmitted
            /\ source[1] = Ins("LOAD", <<Bare(Id("R5")), Hash(Num("0x1234", 4660, "hex"))>>))
        => log[1].first = [hi |-> 261, lo |-> 4660]
    /\ (TwoOperandEmitted
            /\ source[1] = Ins("ADD", <<Bare(Id("R5")), BrPlus(Id("R6"), Dec(4))>>))
        => log[1].first = [hi |-> 8261, lo |-> 24580]
====
